---- MODULE Spec2Model ----
(***************************************************************************)
(* Model of go-cfgw's reconciliation run (internal/worker/worker.go) and   *)
(* of the Cloudflare Gateway client it drives (internal/cf/client.go).     *)
(*                                                                         *)
(* The remote account is a set of rules and a set of lists; the remote     *)
(* assigns identifiers from a counter.  One step of the model is one       *)
(* attempt of doRequestWithRetry at one call site, followed by the         *)
(* caller's code up to the next call site.                                 *)
(***************************************************************************)
EXTENDS Integers, Sequences, FiniteSets, TLC

\* ------------------------------------------------------------------ bounds
MaxAttempts == 2    \* attempts of one logical call that fit in the 2-minute budget
MaxItems == 2       \* entries per input set
MaxSize == 2        \* largest configured chunk size
MaxInitial == 1     \* resources on the remote when the program starts
MaxListing == 3     \* resources on the remote when a cleanup is exercised alone
MaxIds == 4         \* identifiers handed to the expression builder
MaxTotal == 5       \* entries handed to createListsInChunks alone
MaxChunk == 3       \* chunk size when createListsInChunks is exercised alone
MaxFaults == 2      \* failed attempts in two successive runs
MaxCalls == 2       \* logical calls a caller makes when the retry loop is seen in time
MaxRateLimited == 1 \* 429 answers with Retry-After the remote gives to one logical call
MaxSlow == 1        \* attempts of one logical call that run into the client timeout
MaxClock == 200000  \* no timer is followed beyond this many milliseconds
MaxEntries == 1     \* entries per input set when the program is seen from main
MaxURLs == 2        \* sources of one kind (allow, block) in the configuration
MaxLines == 2       \* lines in the body of one source
MaxCallers == 2     \* callers that use one Client at the same time

\* ------------------------------------------------------- strings (Go strings)
\* strings.HasPrefix(s, prefix)
HasPrefix(s, prefix) ==
    Len(s) >= Len(prefix) /\ SubSeq(s, 1, Len(prefix)) = prefix

\* strings.Contains(s, substr)
Contains(s, substr) ==
    \E k \in 1..(Len(s) - Len(substr) + 1) : SubSeq(s, k, k + Len(substr) - 1) = substr

\* the character of s at position k, as a string of length 1
At(s, k) == SubSeq(s, k, k)

\* ch is one of the characters of cutset
InSet(ch, cutset) == \E k \in 1..Len(cutset) : At(cutset, k) = ch

AsciiUpper == "ABCDEFGHIJKLMNOPQRSTUVWXYZ"
AsciiLower == "abcdefghijklmnopqrstuvwxyz"
AsciiDigits == "0123456789"
\* the white space of this model's inputs: space, tab, carriage return, newline
WhiteSpace == " \t\r\n"

\* strings.ToLower(s), on ASCII
RECURSIVE ToLower(_)
ToLower(s) ==
    IF s = "" THEN ""
    ELSE LET ch == At(s, 1)
             lo == IF InSet(ch, AsciiUpper)
                   THEN At(AsciiLower, CHOOSE k \in 1..Len(AsciiUpper) : At(AsciiUpper, k) = ch)
                   ELSE ch
         IN  lo \o ToLower(SubSeq(s, 2, Len(s)))

\* strings.TrimLeft(s, cutset)
RECURSIVE TrimLeft(_, _)
TrimLeft(s, cutset) ==
    IF s # "" /\ InSet(At(s, 1), cutset) THEN TrimLeft(SubSeq(s, 2, Len(s)), cutset) ELSE s

\* strings.TrimRight(s, cutset)
RECURSIVE TrimRight(_, _)
TrimRight(s, cutset) ==
    IF s # "" /\ InSet(At(s, Len(s)), cutset)
    THEN TrimRight(SubSeq(s, 1, Len(s) - 1), cutset)
    ELSE s

\* strings.Trim(s, cutset)
Trim(s, cutset) == TrimRight(TrimLeft(s, cutset), cutset)

\* strings.TrimSpace(s)
TrimSpace(s) == Trim(s, WhiteSpace)

\* strings.TrimPrefix(s, prefix)
TrimPrefix(s, prefix) ==
    IF HasPrefix(s, prefix) THEN SubSeq(s, Len(prefix) + 1, Len(s)) ELSE s

\* strings.Split(s, sep)[0], for a separator of one character
RECURSIVE SplitFirst(_, _)
SplitFirst(s, sep) ==
    IF s = "" \/ At(s, 1) = sep THEN ""
    ELSE At(s, 1) \o SplitFirst(SubSeq(s, 2, Len(s)), sep)

\* strings.Split(s, sep), for a separator of one character
RECURSIVE Split(_, _)
Split(s, sep) ==
    LET head == SplitFirst(s, sep)
    IN  IF Len(head) = Len(s) THEN <<s>>
        ELSE <<head>> \o Split(SubSeq(s, Len(head) + 2, Len(s)), sep)

\* every character of s is one of cutset
AllIn(s, cutset) == \A k \in 1..Len(s) : InSet(At(s, k), cutset)

\* ------------------------------------------------------------ name patterns
\* variant: only the rules of the Node.js generation are matched
IsOldRuleNameLegacy(ruleName) == Contains(ruleName, "CGPS Filter Lists")

\* DeleteAllOldRules: the name test of the rule loop
IsOldRuleName(ruleName) ==
    \/ Contains(ruleName, "CGPS Filter Lists")
    \/ Contains(ruleName, "Go-CFGW Filter Lists")

\* variant: the current-generation list names matched by substring as well
IsOldListNameLoose(listName) ==
    \/ Contains(listName, "CGPS")
    \/ Contains(listName, "Go-CFGW Block List")
    \/ Contains(listName, "Go-CFGW Allow List")

\* DeleteAllOldLists: the name test of the list loop
IsOldListName(listName) ==
    \/ Contains(listName, "CGPS")
    \/ HasPrefix(listName, "Go-CFGW Block List")
    \/ HasPrefix(listName, "Go-CFGW Allow List")

BlockBaseName == "Go-CFGW Block List"
AllowBaseName == "Go-CFGW Allow List"
DNSRuleName == "Go-CFGW Filter Lists"
SNIRuleName == "Go-CFGW Filter Lists - SNI Based Filtering"

\* ------------------------------------------------------------ configuration
\* the value of a decimal digit string, most significant digit first
RECURSIVE DigitsValue(_, _)
DigitsValue(s, acc) ==
    IF s = "" THEN acc
    ELSE DigitsValue(SubSeq(s, 2, Len(s)),
                     10 * acc + (CHOOSE k \in 1..10 : At(AsciiDigits, k) = At(s, 1)) - 1)

\* strconv.Atoi(s): [ok, v].  An optional sign and one or more decimal
\* digits; anything else is a syntax error, and a value that does not fit an
\* int is a range error (taken here for more than 18 digits).
Atoi(s) ==
    LET signed == s # "" /\ At(s, 1) \in {"+", "-"}
        digits == IF signed THEN SubSeq(s, 2, Len(s)) ELSE s
    IN  IF digits = "" \/ ~AllIn(digits, AsciiDigits) \/ Len(digits) > 18
        THEN [ok |-> FALSE, v |-> 0]
        ELSE [ok |-> TRUE,
              v |-> IF signed /\ At(s, 1) = "-" THEN 0 - DigitsValue(digits, 0)
                    ELSE DigitsValue(digits, 0)]

\* LoadFromEnv: listItemSize := 1000
DefaultListItemSize == 1000

\* variant: any integer the variable holds is taken
SizeOrUnchecked(s, size) == IF Atoi(s).ok THEN Atoi(s).v ELSE size

\* LoadFromEnv: if v, err := strconv.Atoi(s); err == nil && v > 0 { listItemSize = v }
SizeOr(s, size) == IF Atoi(s).ok /\ Atoi(s).v > 0 THEN Atoi(s).v ELSE size

\* LoadFromEnv: v == "1" || strings.ToLower(v) == "true"
Truthy(v) == v = "1" \/ ToLower(v) = "true"

\* config.LoadFromEnv() of a process whose credentials are set: the fields of
\* Config that Run reads, and DryRun
LoadFromEnv(e) ==
    [ListItemSize |->
        IF e.CLOUDFLARE_LIST_ITEM_SIZE # ""
        THEN SizeOr(e.CLOUDFLARE_LIST_ITEM_SIZE, DefaultListItemSize)
        ELSE IF e.CLOUDFLARE_LIST_ITEM_LIMIT # ""
        THEN SizeOr(e.CLOUDFLARE_LIST_ITEM_LIMIT, DefaultListItemSize)
        ELSE DefaultListItemSize,
     DryRun |-> Truthy(e.DRY_RUN),
     BlockBasedOnSNI |-> Truthy(e.BLOCK_BASED_ON_SNI),
     BlockPageEnabled |-> Truthy(e.BLOCK_PAGE_ENABLED)]

\* The processes main is started as: with or without --dry-run, and with
\* these values of the variables LoadFromEnv reads.
Environments ==
    [dryRun : BOOLEAN,
     DRY_RUN : {"", "1", "True"},
     CLOUDFLARE_LIST_ITEM_SIZE : {"", "0", "-5", "x", "2", "99999999999999999999"},
     CLOUDFLARE_LIST_ITEM_LIMIT : {"", "1"},
     BLOCK_PAGE_ENABLED : {""},
     BLOCK_BASED_ON_SNI : {""}]

\* ---------------------------------------------------------------- downloader
\* commentPrefix.MatchString(line): ^\s*(#|//|!|/\*)
CommentPrefix(line) ==
    LET t == TrimLeft(line, WhiteSpace)
    IN  HasPrefix(t, "#") \/ HasPrefix(t, "//") \/ HasPrefix(t, "!") \/ HasPrefix(t, "/*")

\* one label of hostPattern that is followed by a dot: [a-z0-9]([a-z0-9-]{0,61}[a-z0-9])?
HostLabel(label) ==
    /\ Len(label) \in 1..63
    /\ AllIn(label, AsciiLower \o AsciiDigits \o "-")
    /\ At(label, 1) # "-"
    /\ At(label, Len(label)) # "-"

\* hostPattern.MatchString(s): ^([a-z0-9]([a-z0-9-]{0,61}[a-z0-9])?\.)+[a-z]{2,63}$
HostPattern(s) ==
    LET labels == Split(s, ".")
        n == Len(labels)
    IN  /\ n >= 2
        /\ \A k \in 1..(n - 1) : HostLabel(labels[k])
        /\ Len(labels[n]) \in 2..63
        /\ AllIn(labels[n], AsciiLower)

\* normalizeLine(line)
NormalizeLine(line) ==
    LET s1 == TrimSpace(line)
        s2 == TrimPrefix(s1, "0.0.0.0 ")
        s3 == TrimPrefix(s2, "127.0.0.1 ")
        s4 == TrimPrefix(s3, "::1 ")
        s5 == TrimPrefix(s4, "||")
        s6 == TrimPrefix(s5, "*.")
        s7 == TrimPrefix(s6, "^")
        s8 == SplitFirst(s7, " ")
        s9 == TrimRight(s8, "^/\t\r\n ")
        s10 == Trim(s9, "|\t\r\n ")
    IN  ToLower(s10)

\* fetchIntoSet: the line loop over the body of one source; the result is the
\* set after the last line and the number of entries this source added
RECURSIVE ReadLines(_, _, _)
ReadLines(lines, dest, count) ==
    IF lines = <<>> THEN [dest |-> dest, count |-> count]
    ELSE LET line == TrimSpace(lines[1])
             normalized == NormalizeLine(line)
             rest == SubSeq(lines, 2, Len(lines))
         IN  IF line = "" \/ CommentPrefix(line) THEN ReadLines(rest, dest, count)
             ELSE IF HostPattern(normalized) /\ normalized \notin dest
             THEN ReadLines(rest, dest \cup {normalized}, count + 1)
             ELSE ReadLines(rest, dest, count)

\* Lines a source can hold: hosts-file lines, adblock lines, plain domains,
\* comments, blank lines and lines that are no domain.
SampleLines ==
    { "ads.example.com",
      "0.0.0.0 ads.example.com",
      "||Ads.Example.com^",
      "*.track.example.net",
      "127.0.0.1 track.example.net # tracker",
      "# a comment",
      "! another",
      "",
      "not_a_host",
      "localhost" }

\* the bodies a source can answer with: up to MaxLines lines, ended by \n or \r\n
RECURSIVE JoinLines(_, _)
JoinLines(lines, eol) ==
    IF lines = <<>> THEN ""
    ELSE lines[1] \o (IF Len(lines) = 1 THEN "" ELSE eol) \o JoinLines(SubSeq(lines, 2, Len(lines)), eol)

Bodies ==
    {JoinLines(q, eol) : q \in UNION {[1..n -> SampleLines] : n \in 0..MaxLines},
                         eol \in {"\n", "\r\n"}}

\* the orders in which a range over map S can yield its keys
Orderings(S) ==
    {q \in [1..Cardinality(S) -> S] : \A x \in S : \E k \in 1..Cardinality(S) : q[k] = x}

\* ---------------------------------------------------- the remote before a run
\* Rule names an account can hold before the first run: the Node.js (CGPS)
\* generation, earlier Go-CFGW runs, and rules of the account's owner.
InitRuleNames ==
    << "CGPS Filter Lists",
       "CGPS Filter Lists - SNI Based Filtering",
       "Go-CFGW Filter Lists",
       "Go-CFGW Filter Lists - SNI Based Filtering",
       "Corporate DNS policy",
       "Copy of Go-CFGW Filter Lists" >>

\* List names an account can hold before the first run: the Node.js
\* generation, the first Go worker ("CGPS Block List"), earlier Go-CFGW
\* runs, and lists of the account's owner.
InitListNames ==
    << "CGPS List - Chunk 1",
       "CGPS Block List - Chunk 1",
       "Go-CFGW Block List - Chunk 1",
       "Go-CFGW Allow List - Chunk 1",
       "Home devices",
       "My CGPS notes",
       "Copy of Go-CFGW Block List" >>

FirstFreeId == Len(InitRuleNames) + Len(InitListNames) + 1

\* The entries handed to Run: n distinct domains of one set.
Domains(prefix, n) == [k \in 1..n |-> prefix \o ToString(k) \o ".example"]


\* ------------------------------------------------------------------- state
VARIABLES
    rules,          \* remote: the account's Gateway rules
    lists,          \* remote: the account's Zero Trust lists
    nextId,         \* remote: the next identifier the API assigns
    opts,           \* worker.Options of the run (DryRun)
    cfg,            \* config.Config of the run
    allow, block,   \* the two entry sequences handed to Run
    pc,             \* the call site the run is at ("start": not yet begun, "done": returned)
    attempt,        \* number of the current attempt of the retrying call
    todo,           \* cleanup loop: the matching resources still to visit
    deleted,        \* cleanup loop: the counter `deleted`
    cl,             \* createListsInChunks: baseName, items, i, createdIDs
    createdListIDs, \* Run: the identifier collection
    up,             \* CreateOrUpdateRule: its arguments, the matched id, the listing it fetched
    result,         \* what the last Run returned: "none" (running), "ok", "err"
    sent,           \* history: mutating requests put on the wire in this run
    acked,          \* history: mutating requests whose logical call returned nil
    failed,         \* history: requests whose logical call returned an error
    phase,          \* history: phase of the last remote call / pause of this run
    planned,        \* the chunks a dry run formed, with their log line (name, n)
    startRules,     \* history: the remote's rules when the run began
    startLists,     \* history: the remote's lists when the run began
    calls,          \* history: the finished CreateOrUpdateRule calls, in order
    ctx,            \* the context.Context handed to Run: "live", "cancelled", or
                    \* "observed" (cancelled, and a remote call has returned its error)
    net,            \* environment: how many attempts may still fail (limited or not)
    prev,           \* history: what the previous run of the same caller left behind
    rt,             \* doRequestWithRetry seen with its clock: one logical call in time
    env,            \* the process: its environment variables and its --dry-run flag
    dl,             \* DownloadAndProcess: the sources, the position, allowSet, blockSet
    conc            \* one Client used by several callers at once: the Client's
                    \* fields and the frame of each caller's doRequestWithRetry

remoteVars == <<rules, lists, nextId>>
inputVars == <<opts, cfg, allow, block, env, dl, conc>>
loopVars == <<todo, deleted>>
ctlVars == <<pc, cl, createdListIDs, up, result>>
histVars == <<planned, startRules, startLists>>
envVars == <<ctx, net, prev, rt>>
vars == <<rules, lists, nextId, opts, cfg, allow, block, pc, attempt, todo, deleted,
          cl, createdListIDs, up, result, sent, acked, failed, phase, planned,
          startRules, startLists, calls, ctx, net, prev, rt, env, dl, conc>>

\* Phases of a run, in the order Run goes through them.
PhaseNone == 0
PhaseRuleCleanup == 1
PhaseListCleanup == 2
PhaseSettle == 3
PhaseBlockLists == 4
PhaseAllowLists == 5
PhaseDNSRule == 6
PhaseSNIRule == 7

\* ------------------------------------------------------------------ helpers
Min(a, b) == IF a < b THEN a ELSE b

\* The remote lists resources in the order it created them.
RECURSIVE ByID(_)
ByID(S) ==
    IF S = {} THEN <<>>
    ELSE LET m == CHOOSE r \in S : \A q \in S : r.id <= q.id
         IN  <<m>> \o ByID(S \ {m})

RECURSIVE SelectOld(_, _)
SelectOld(listing, isRule) ==
    IF listing = <<>> THEN <<>>
    ELSE LET h == Head(listing)
             keep == IF isRule THEN IsOldRuleName(h.name) ELSE IsOldListName(h.name)
         IN  (IF keep THEN <<h>> ELSE <<>>) \o SelectOld(Tail(listing), isRule)

\* variant: the partial last chunk is dropped (integer division)
ChunksFloor(total, size) == total \div size

\* createListsInChunks: chunks := int(math.Ceil(float64(total) / float64(size)))
Chunks(total, size) ==
    IF total % size = 0 THEN total \div size ELSE (total \div size) + 1

\* createListsInChunks: items[start:end] of the i-th chunk (0-based)
ChunkOf(items, size, i) ==
    LET start == i * size
        end == Min((i + 1) * size, Len(items))
    IN  SubSeq(items, start + 1, end)

\* variant: the chunks are numbered from 0
ChunkNameFromZero(baseName, i) == baseName \o " - Chunk " \o ToString(i)

\* createListsInChunks: fmt.Sprintf("%s - Chunk %d", baseName, i+1)
ChunkName(baseName, i) == baseName \o " - Chunk " \o ToString(i + 1)

\* createListsInChunks under DryRun, iteration i: the payload formed and the
\* log line "would create list <name> with <n> items"
DryRunEntry(baseName, items, size, i) ==
    [name |-> ChunkName(baseName, i),
     n |-> Len(ChunkOf(items, size, i)),
     payload |-> ChunkOf(items, size, i)]

\* createListsInChunks under DryRun: one log line per chunk, no request
DryRunLog(baseName, items, size) ==
    [k \in 1..Chunks(Len(items), size) |-> DryRunEntry(baseName, items, size, k - 1)]

\* Run: the wirefilter expression over the identifier collection
RECURSIVE Clauses(_, _)
Clauses(field, ids) ==
    IF ids = <<>> THEN ""
    ELSE "any(" \o field \o "[*] in $" \o ToString(Head(ids)) \o ") or "
         \o Clauses(field, Tail(ids))

\* variant: the trailing " or " is left in place
WirefilterExprUntrimmed(field, ids) == Clauses(field, ids)

WirefilterExpr(field, ids) ==
    LET e == Clauses(field, ids) IN SubSeq(e, 1, Len(e) - 4)

\* ------------------------------------------------------------------ remote
\* the request paths of the typed operations
RulePath(id) == "/rules/" \o ToString(id)
ListPath(id) == "/lists/" \o ToString(id)

Request(method, path, name) == [method |-> method, path |-> path, name |-> name]

\* What one attempt can come to (operation() of doRequestWithRetry):
\*   "ok"   the remote applied the request and the 2xx body was read;
\*   "lost" the remote applied the request but the attempt returned an error
\*          (io.ReadAll failed on the 2xx body, or the 30 s client timeout
\*          fired after the remote had acted);
\*   "fail" the request was not applied (transport error, 429, other non-2xx).
Outcomes == {"ok", "lost", "fail"}

Applied(o) == o \in {"ok", "lost"}

\* backoff.Retry: another attempt follows a failed one while the budget lasts
\* and the context is not done
Retrying(o) == o # "ok" /\ attempt < MaxAttempts /\ ctx = "live"
GivingUp(o) == o # "ok" /\ (attempt >= MaxAttempts \/ ctx # "live")

\* With a context that is done http.Client.Do returns its error before anything
\* is written, and the wait between two attempts returns ctx.Err(); otherwise an
\* attempt fails only while the environment has failures left.
Possible(o) ==
    IF ctx # "live" THEN o = "fail"
    ELSE o = "ok" \/ ~net.limited \/ net.left > 0

Spend(o) ==
    IF o # "ok" /\ ctx = "live" /\ net.limited
    THEN [net EXCEPT !.left = net.left - 1]
    ELSE net

\* the mutating requests on the wire after this attempt of q
Wire(q) == IF ctx # "live" THEN sent ELSE sent \cup {q}

\* what an attempt with outcome o does to the environment
Env(o) ==
    /\ Possible(o)
    /\ net' = Spend(o)
    /\ ctx' = IF ctx = "live" THEN ctx ELSE "observed"
    /\ UNCHANGED <<prev, rt>>

\* variant: deleted++ for every deletion tried
CountedAlways(n, o) == n + 1

\* the cleanup loops: deleted++ only when the deletion returned nil
Counted(n, o) == IF o = "ok" THEN n + 1 ELSE n

\* variant: a rule is taken for the named one when its name begins with the name
FindRuleByPrefix(listing, name) == SelectSeq(listing, LAMBDA r : HasPrefix(r.name, name))

\* CreateOrUpdateRule: the rules of the listing whose name is the given name
FindRule(listing, name) == SelectSeq(listing, LAMBDA r : r.name = name)

\* a DELETE or PUT of an identifier the remote does not hold is answered 404
HasRule(id) == \E r \in rules : r.id = id
HasList(id) == \E l \in lists : l.id = id


\* ------------------------------------------------------------------- frames
NoChunks == [baseName |-> "", items |-> <<>>, i |-> 0, createdIDs |-> <<>>]
NoUpsert == [site |-> "", name |-> "", traffic |-> "", filters |-> <<>>,
             blockPageEnabled |-> FALSE, id |-> 0, listing |-> {}]

NoLimit == [limited |-> FALSE, left |-> 0]
NoPrev == [runs |-> 0, ruleNames |-> {}, listNames |-> {}, chunkOrder |-> <<>>]
\* doRequestWithRetry seen in time (milliseconds since backoff.Retry reset the
\* clock).  One record per logical call of the caller:
\*   status   "idle" not called yet, "flight" a request is on the wire,
\*            "cooldown" time.Sleep after a 429 with Retry-After, "wait" the
\*            backoff timer runs, "ret" returned
\*   mock     what the remote does: "flaky" answers anything, "ratelimit"
\*            answers 429 with Retry-After some times and 200 from then on
\*   limited  429 answers with Retry-After received;  slowed  attempts that
\*            ran into the client timeout
\*   resp, respAt, ra   the last response, its time, its Retry-After seconds
\*   startAt  when the last attempt was started;  wake  when the sleep or the
\*            timer ends;  n  attempts started;  ret  "ok" (body) or "err"
IdleCall ==
    [status |-> "idle", mock |-> "", limited |-> 0, slowed |-> 0, elapsed |-> 0,
     interval |-> 0, wake |-> 0, n |-> 0, resp |-> "none", respAt |-> 0, ra |-> 0,
     startAt |-> 0, ret |-> "none", header |-> ""]

NoRetry == [c \in 1..MaxCalls |-> IdleCall]

\* a process started with no variable set and no flag given
NoEnv ==
    [dryRun |-> FALSE, DRY_RUN |-> "", CLOUDFLARE_LIST_ITEM_SIZE |-> "",
     CLOUDFLARE_LIST_ITEM_LIMIT |-> "", BLOCK_PAGE_ENABLED |-> "",
     BLOCK_BASED_ON_SNI |-> ""]

\* the frame of a caller that has not called doRequestWithRetry:
\*   pc  "idle", "op" (operation() is about to build the request), "flight",
\*       "stored" (operation() has assigned out and returned nil), "failed"
\*       (operation() has returned an error to backoff.Retry), "ret" (returned)
\*   method, path, bodyBytes   the arguments and the marshalled body
\*   url, authorization        the request of the attempt under way
\*   n  attempts made;  out, err  the locals of the call
\*   ret  the pair the call returned: the body and the error ("" for nil)
\*   storedAt, retAt   when out was assigned and when the call returned
IdleFrame ==
    [pc |-> "idle", method |-> "", path |-> "", bodyBytes |-> "", url |-> "",
     authorization |-> "", n |-> 0, out |-> "", err |-> "",
     ret |-> [b |-> "", err |-> ""], storedAt |-> 0, retAt |-> 0]

\* NewClient(cfg, logger) for a configuration with this API host, and no
\* caller yet; made is the Client as NewClient returned it
ClientOf(host) ==
    [token |-> "tok", account |-> "acc", host |-> host]

NoCallers ==
    [client |-> ClientOf(""), made |-> ClientOf(""), clock |-> 0,
     frames |-> [c \in 1..MaxCallers |-> IdleFrame]]

\* DownloadAndProcess has not been called
NoDownload ==
    [pc |-> "idle", AllowURLs |-> <<>>, BlockURLs |-> <<>>, i |-> 0,
     allowSet |-> {}, blockSet |-> {}, count |-> 0]

\* Run: the arguments of the two CreateOrUpdateRule calls
UpsertFrame(site, ids) ==
    IF site = "dns"
    THEN [site |-> "dns", name |-> DNSRuleName,
          traffic |-> WirefilterExpr("dns.domains", ids), filters |-> <<"dns">>,
          blockPageEnabled |-> cfg.BlockPageEnabled, id |-> 0, listing |-> {}]
    ELSE [site |-> "sni", name |-> SNIRuleName,
          traffic |-> WirefilterExpr("net.sni.domains", ids), filters |-> <<"l4">>,
          blockPageEnabled |-> cfg.BlockPageEnabled, id |-> 0, listing |-> {}]

\* the rule body CreateOrUpdateRule sends, as the remote stores it under id
RuleOf(id, u) ==
    [id |-> id, name |-> u.name, traffic |-> u.traffic, filters |-> u.filters,
     blockPageEnabled |-> u.blockPageEnabled]

\* -------------------------------------------------------------------- Init
InitRule(j) ==
    [id |-> j, name |-> InitRuleNames[j], traffic |-> "legacy",
     filters |-> IF Contains(InitRuleNames[j], "SNI") THEN <<"l4">> ELSE <<"dns">>,
     blockPageEnabled |-> FALSE]

InitList(j) ==
    [id |-> Len(InitRuleNames) + j, name |-> InitListNames[j], items |-> <<"old.example">>]

\* The remote holds the rules rs and the lists ls; the program has not yet
\* called Run.
InitOn(rs, ls, at, limit) ==
    /\ rules = rs
    /\ startRules = rs
    /\ lists = ls
    /\ startLists = ls
    /\ nextId = FirstFreeId
    /\ opts = [DryRun |-> FALSE]
    /\ cfg = [ListItemSize |-> 1, DryRun |-> FALSE, BlockBasedOnSNI |-> FALSE,
              BlockPageEnabled |-> FALSE]
    /\ allow = <<>>
    /\ block = <<>>
    /\ pc = at
    /\ attempt = 1
    /\ todo = <<>>
    /\ deleted = 0
    /\ cl = NoChunks
    /\ createdListIDs = <<>>
    /\ up = NoUpsert
    /\ result = "none"
    /\ sent = {}
    /\ acked = {}
    /\ failed = {}
    /\ phase = PhaseNone
    /\ planned = <<>>
    /\ calls = <<>>
    /\ ctx = "live"
    /\ net = limit
    /\ prev = NoPrev
    /\ rt = NoRetry
    /\ env = NoEnv
    /\ dl = NoDownload
    /\ conc = NoCallers

\* The remote holds at most n resources, each rule name at most once; the
\* program has not yet called Run.
InitFull(n, at, limit) ==
    \E RS \in SUBSET (1..Len(InitRuleNames)), LS \in SUBSET (1..Len(InitListNames)) :
        /\ Cardinality(RS) + Cardinality(LS) <= n
        /\ InitOn({InitRule(j) : j \in RS}, {InitList(j) : j \in LS}, at, limit)

\* What an earlier generation leaves behind: its DNS rule, whose expression
\* names its one list.  g = 1: the Node.js scripts (CGPS), g = 3: Go-CFGW.
LeftRule(g) ==
    [InitRule(g) EXCEPT !.traffic = WirefilterExpr("dns.domains", <<InitList(g).id>>)]

InitWith(n, at) == InitFull(n, at, NoLimit)

Init == InitWith(MaxInitial, "start")

\* ------------------------------------------------- Run: control between calls
\* variant: the error of a failed step is dropped and Run returns nil
FinishSwallow(r, ids) ==
    /\ pc' = "done"
    /\ result' = "ok"
    /\ createdListIDs' = ids
    /\ UNCHANGED <<cl, up>>

\* Run returns r (nil: "ok"; an error: "err")
Finish(r, ids) ==
    /\ pc' = "done"
    /\ result' = r
    /\ createdListIDs' = ids
    /\ UNCHANGED <<cl, up>>

\* Run calls CreateOrUpdateRule for the DNS rule or for the SNI rule
StartRule(site, ids) ==
    /\ pc' = "cou_get"
    /\ up' = UpsertFrame(site, ids)
    /\ createdListIDs' = ids
    /\ UNCHANGED <<cl, result>>

\* variant: the DNS rule is upserted whatever the identifier collection holds
RuleStepNoSkip(ids) == StartRule("dns", ids)

\* Run, step 5: no rule when no list was created
RuleStep(ids) ==
    IF Len(ids) = 0 THEN Finish("ok", ids) ELSE StartRule("dns", ids)

\* Run calls createListsInChunks(baseName, items)
StartCreate(baseName, items, ids) ==
    /\ pc' = "create"
    /\ cl' = [baseName |-> baseName, items |-> items, i |-> 0, createdIDs |-> <<>>]
    /\ createdListIDs' = ids
    /\ UNCHANGED <<up, result>>

\* variant: the allow set is created before the block set
ListsStepAllowFirst(after, ids) ==
    IF after = "" /\ Len(allow) > 0 THEN StartCreate(AllowBaseName, allow, ids)
    ELSE IF after # BlockBaseName /\ Len(block) > 0 THEN StartCreate(BlockBaseName, block, ids)
    ELSE RuleStep(ids)

\* Run, steps 3 and 4: the block set, then the allow set, then the rules.
\* after: "" before step 3, else the base name of the set just finished.
ListsStep(after, ids) ==
    IF after = "" /\ Len(block) > 0 THEN StartCreate(BlockBaseName, block, ids)
    ELSE IF after # AllowBaseName /\ Len(allow) > 0 THEN StartCreate(AllowBaseName, allow, ids)
    ELSE RuleStep(ids)

\* variant: the SNI rule is never upserted
RuleReturnSkipSNI(gotErr) ==
    IF gotErr THEN Finish("err", createdListIDs) ELSE Finish("ok", createdListIDs)

\* variant: the SNI rule is upserted whatever the configuration says
RuleReturnAlwaysSNI(gotErr) ==
    IF gotErr THEN Finish("err", createdListIDs)
    ELSE IF up.site = "dns" THEN StartRule("sni", createdListIDs)
    ELSE Finish("ok", createdListIDs)

\* Run after CreateOrUpdateRule returned (gotErr: it returned an error)
RuleReturn(gotErr) ==
    IF gotErr THEN Finish("err", createdListIDs)
    ELSE IF up.site = "dns" /\ cfg.BlockBasedOnSNI THEN StartRule("sni", createdListIDs)
    ELSE Finish("ok", createdListIDs)

\* the other caller after CreateOrUpdateRule returned: the second call follows
\* a first that returned nil
TestReturn(gotErr) ==
    IF gotErr THEN Finish("err", createdListIDs)
    ELSE IF Len(calls) = 0
    THEN /\ pc' = "cou_get"
         /\ up' = [up EXCEPT !.id = 0, !.listing = {}]
         /\ UNCHANGED <<cl, createdListIDs, result>>
    ELSE Finish("ok", createdListIDs)


\* ------------------------------------------------------------------ actions
\* main starts the program: Run is entered with the options, the configuration
\* and the two entry sequences of this execution (worker.go 26-37).
RunBegin ==
    /\ pc = "start"
    /\ \E d \in BOOLEAN, sni \in BOOLEAN, bpe \in BOOLEAN,
          size \in 1..MaxSize, nb \in 0..MaxItems, na \in 0..MaxItems :
          /\ opts' = [DryRun |-> d]
          /\ cfg' = [ListItemSize |-> size, DryRun |-> FALSE, BlockBasedOnSNI |-> sni,
                     BlockPageEnabled |-> bpe]
          /\ block' = Domains("b", nb)
          /\ allow' = Domains("a", na)
    /\ UNCHANGED <<env, dl, conc>>
    /\ pc' = "rules_get"
    /\ attempt' = 1
    /\ todo' = <<>>
    /\ deleted' = 0
    /\ cl' = NoChunks
    /\ createdListIDs' = <<>>
    /\ up' = NoUpsert
    /\ result' = "none"
    /\ sent' = {}
    /\ acked' = {}
    /\ failed' = {}
    /\ phase' = PhaseNone
    /\ planned' = <<>>
    /\ startRules' = rules
    /\ startLists' = lists
    /\ calls' = <<>>
    /\ UNCHANGED <<remoteVars, envVars>>

\* DeleteAllOldRules: one attempt of GetRules (client.go 159-165); a failed
\* enumeration makes Run return "cleanup old rules" (worker.go 38-40).
DeleteAllOldRulesGet ==
    /\ pc = "rules_get"
    /\ \E o \in {"ok", "fail"} :
          /\ Env(o)
          /\ phase' = PhaseRuleCleanup
          /\ failed' = IF GivingUp(o) THEN failed \cup {Request("GET", "/rules", "")}
                        ELSE failed
          /\ UNCHANGED <<remoteVars, inputVars, sent, acked, histVars, calls>>
          /\ IF o = "ok"
             THEN LET old == SelectOld(ByID(rules), TRUE)
                  IN  /\ attempt' = 1
                      /\ deleted' = 0
                      /\ todo' = old
                      /\ pc' = IF old = <<>> THEN "lists_get" ELSE "rules_del"
                      /\ UNCHANGED <<cl, createdListIDs, up, result>>
             ELSE IF Retrying(o)
             THEN attempt' = attempt + 1 /\ UNCHANGED <<loopVars, ctlVars>>
             ELSE attempt' = 1 /\ UNCHANGED loopVars /\ Finish("err", createdListIDs)

\* DeleteAllOldRules: one attempt of DeleteRule for the next matching rule
\* (client.go 166-182); a failed deletion is logged and the loop goes on.
DeleteAllOldRulesDelete ==
    /\ pc = "rules_del"
    /\ LET r == Head(todo)
           q == Request("DELETE", RulePath(r.id), r.name)
       IN  \E o \in Outcomes :
              /\ Env(o)
              /\ Applied(o) => HasRule(r.id)
              /\ phase' = PhaseRuleCleanup
              /\ sent' = Wire(q)
              /\ failed' = IF GivingUp(o) THEN failed \cup {q} ELSE failed
              /\ rules' = IF Applied(o) THEN {x \in rules : x.id # r.id} ELSE rules
              /\ UNCHANGED <<lists, nextId, inputVars, histVars, calls>>
              /\ UNCHANGED <<cl, createdListIDs, up, result>>
              /\ IF Retrying(o)
                 THEN attempt' = attempt + 1 /\ UNCHANGED <<loopVars, pc, acked>>
                 ELSE /\ attempt' = 1
                      /\ deleted' = Counted(deleted, o)
                      /\ acked' = IF o = "ok" THEN acked \cup {q} ELSE acked
                      /\ todo' = Tail(todo)
                      /\ pc' = IF Tail(todo) = <<>> THEN "lists_get" ELSE "rules_del"

\* DeleteAllOldLists: one attempt of GetLists (client.go 196-202); a failed
\* enumeration makes Run return "cleanup old lists" (worker.go 44-46).
DeleteAllOldListsGet ==
    /\ pc = "lists_get"
    /\ \E o \in {"ok", "fail"} :
          /\ Env(o)
          /\ phase' = PhaseListCleanup
          /\ failed' = IF GivingUp(o) THEN failed \cup {Request("GET", "/lists", "")}
                        ELSE failed
          /\ UNCHANGED <<remoteVars, inputVars, sent, acked, histVars, calls>>
          /\ IF o = "ok"
             THEN LET old == SelectOld(ByID(lists), FALSE)
                  IN  /\ attempt' = 1
                      /\ deleted' = 0
                      /\ todo' = old
                      /\ pc' = IF old = <<>> THEN "settle" ELSE "lists_del"
                      /\ UNCHANGED <<cl, createdListIDs, up, result>>
             ELSE IF Retrying(o)
             THEN attempt' = attempt + 1 /\ UNCHANGED <<loopVars, ctlVars>>
             ELSE attempt' = 1 /\ UNCHANGED loopVars /\ Finish("err", createdListIDs)

\* DeleteAllOldLists: one attempt of DeleteList for the next matching list
\* (client.go 203-222).
DeleteAllOldListsDelete ==
    /\ pc = "lists_del"
    /\ LET l == Head(todo)
           q == Request("DELETE", ListPath(l.id), l.name)
       IN  \E o \in Outcomes :
              /\ Env(o)
              /\ Applied(o) => HasList(l.id)
              /\ phase' = PhaseListCleanup
              /\ sent' = Wire(q)
              /\ failed' = IF GivingUp(o) THEN failed \cup {q} ELSE failed
              /\ lists' = IF Applied(o) THEN {x \in lists : x.id # l.id} ELSE lists
              /\ UNCHANGED <<rules, nextId, inputVars, histVars, calls>>
              /\ UNCHANGED <<cl, createdListIDs, up, result>>
              /\ IF Retrying(o)
                 THEN attempt' = attempt + 1 /\ UNCHANGED <<loopVars, pc, acked>>
                 ELSE /\ attempt' = 1
                      /\ deleted' = Counted(deleted, o)
                      /\ acked' = IF o = "ok" THEN acked \cup {q} ELSE acked
                      /\ todo' = Tail(todo)
                      /\ pc' = IF Tail(todo) = <<>> THEN "settle" ELSE "lists_del"

\* Run: the 2-second pause, then the code up to the first CreateList call
\* (worker.go 48-76).  Under DryRun both createListsInChunks loops only log
\* and the identifier collection stays empty.
RunSettle ==
    /\ pc = "settle"
    /\ phase' = PhaseSettle
    /\ attempt' = 1
    /\ UNCHANGED <<remoteVars, inputVars, loopVars, sent, acked, failed>>
    /\ UNCHANGED <<startRules, startLists, calls, envVars>>
    /\ IF opts.DryRun
       THEN /\ planned' = DryRunLog(BlockBaseName, block, cfg.ListItemSize)
                          \o DryRunLog(AllowBaseName, allow, cfg.ListItemSize)
            /\ RuleStep(<<>>)
       ELSE /\ planned' = planned
            /\ ListsStep("", <<>>)


\* createListsInChunks: one attempt of CreateList for chunk cl.i (worker.go
\* 125-158, client.go 116-127); the identifier of the response is appended to
\* createdIDs, and a failed call makes Run return (worker.go 56-58, 66-68).
\* variant: the identifiers of the later set are put in front
PrependIDs(all, ids) == ids \o all

\* Run: createdListIDs = append(createdListIDs, ids...)
AppendIDs(all, ids) == all \o ids

CreateListsInChunksCreate ==
    /\ pc = "create"
    /\ LET size == cfg.ListItemSize
           chunks == Chunks(Len(cl.items), size)
           name == ChunkName(cl.baseName, cl.i)
           q == Request("POST", "/lists", name)
           new == [id |-> nextId, name |-> name, items |-> ChunkOf(cl.items, size, cl.i)]
       IN  \E o \in Outcomes :
              /\ Env(o)
              /\ phase' = IF cl.baseName = BlockBaseName THEN PhaseBlockLists
                          ELSE PhaseAllowLists
              /\ sent' = Wire(q)
              /\ failed' = IF GivingUp(o) THEN failed \cup {q} ELSE failed
              /\ lists' = IF Applied(o) THEN lists \cup {new} ELSE lists
              /\ nextId' = IF Applied(o) THEN nextId + 1 ELSE nextId
              /\ UNCHANGED <<rules, inputVars, loopVars, histVars, calls>>
              /\ IF o = "ok"
                 THEN LET ids == Append(cl.createdIDs, new.id)
                      IN  /\ attempt' = 1
                          /\ acked' = acked \cup {q}
                          /\ IF cl.i + 1 < chunks
                             THEN /\ cl' = [cl EXCEPT !.i = cl.i + 1, !.createdIDs = ids]
                                  /\ UNCHANGED <<pc, createdListIDs, up, result>>
                             ELSE ListsStep(cl.baseName, AppendIDs(createdListIDs, ids))
                 ELSE IF Retrying(o)
                 THEN attempt' = attempt + 1 /\ UNCHANGED <<ctlVars, acked>>
                 ELSE attempt' = 1 /\ UNCHANGED acked /\ Finish("err", createdListIDs)

\* history: what a finished CreateOrUpdateRule call saw, sent and returned
CallRecord(u, listing, requests, ret) ==
    [site |-> u.site, name |-> u.name, traffic |-> u.traffic, filters |-> u.filters,
     blockPageEnabled |-> u.blockPageEnabled, listing |-> listing, sent |-> requests,
     ret |-> ret]

\* the caller of CreateOrUpdateRule takes its return value
UpsertReturn(gotErr) ==
    IF up.site = "test" THEN TestReturn(gotErr) ELSE RuleReturn(gotErr)

\* CreateOrUpdateRule: one attempt of GetRules, then the search of the listing
\* for a rule of that name (client.go 235-251).
CreateOrUpdateRuleGet ==
    /\ pc = "cou_get"
    /\ \E o \in {"ok", "fail"} :
          /\ Env(o)
          /\ phase' = IF up.site = "sni" THEN PhaseSNIRule ELSE PhaseDNSRule
          /\ failed' = IF GivingUp(o) THEN failed \cup {Request("GET", "/rules", up.name)}
                        ELSE failed
          /\ UNCHANGED <<remoteVars, inputVars, loopVars, sent, acked, histVars>>
          /\ IF o = "ok"
             THEN LET found == FindRule(ByID(rules), up.name)
                  IN  /\ attempt' = 1
                      /\ pc' = IF found # <<>> THEN "cou_put" ELSE "cou_post"
                      /\ up' = [up EXCEPT !.id = IF found # <<>> THEN Head(found).id ELSE 0,
                                          !.listing = rules]
                      /\ UNCHANGED <<cl, createdListIDs, result, calls>>
             ELSE IF Retrying(o)
             THEN attempt' = attempt + 1 /\ UNCHANGED <<ctlVars, calls>>
             ELSE /\ attempt' = 1
                  /\ calls' = Append(calls, CallRecord(up, {}, {}, "err"))
                  /\ UpsertReturn(TRUE)

\* CreateOrUpdateRule: one attempt of the update-by-id (client.go 243-247)
CreateOrUpdateRuleUpdate ==
    /\ pc = "cou_put"
    /\ LET q == Request("PUT", RulePath(up.id), up.name)
       IN  \E o \in Outcomes :
              /\ Env(o)
              /\ Applied(o) => HasRule(up.id)
              /\ phase' = IF up.site = "sni" THEN PhaseSNIRule ELSE PhaseDNSRule
              /\ sent' = Wire(q)
              /\ failed' = IF GivingUp(o) THEN failed \cup {q} ELSE failed
              /\ rules' = IF Applied(o)
                          THEN {x \in rules : x.id # up.id} \cup {RuleOf(up.id, up)}
                          ELSE rules
              /\ UNCHANGED <<lists, nextId, inputVars, loopVars, histVars>>
              /\ IF o = "ok"
                 THEN /\ attempt' = 1
                      /\ acked' = acked \cup {q}
                      /\ calls' = Append(calls, CallRecord(up, up.listing, {q}, "ok"))
                      /\ UpsertReturn(FALSE)
                 ELSE IF Retrying(o)
                 THEN attempt' = attempt + 1 /\ UNCHANGED <<ctlVars, acked, calls>>
                 ELSE /\ attempt' = 1
                      /\ UNCHANGED acked
                      /\ calls' = Append(calls, CallRecord(up, up.listing, {q}, "err"))
                      /\ UpsertReturn(TRUE)

\* CreateOrUpdateRule: one attempt of the create (client.go 252-255)
CreateOrUpdateRuleCreate ==
    /\ pc = "cou_post"
    /\ LET q == Request("POST", "/rules", up.name)
       IN  \E o \in Outcomes :
              /\ Env(o)
              /\ phase' = IF up.site = "sni" THEN PhaseSNIRule ELSE PhaseDNSRule
              /\ sent' = Wire(q)
              /\ failed' = IF GivingUp(o) THEN failed \cup {q} ELSE failed
              /\ rules' = IF Applied(o) THEN rules \cup {RuleOf(nextId, up)} ELSE rules
              /\ nextId' = IF Applied(o) THEN nextId + 1 ELSE nextId
              /\ UNCHANGED <<lists, inputVars, loopVars, histVars>>
              /\ IF o = "ok"
                 THEN /\ attempt' = 1
                      /\ acked' = acked \cup {q}
                      /\ calls' = Append(calls, CallRecord(up, up.listing, {q}, "ok"))
                      /\ UpsertReturn(FALSE)
                 ELSE IF Retrying(o)
                 THEN attempt' = attempt + 1 /\ UNCHANGED <<ctlVars, acked, calls>>
                 ELSE /\ attempt' = 1
                      /\ UNCHANGED acked
                      /\ calls' = Append(calls, CallRecord(up, up.listing, {q}, "err"))
                      /\ UpsertReturn(TRUE)

\* A caller other than Run: CreateOrUpdateRule is called with a name, and, when
\* it returned nil, called once more with the same name (client.go 233).
TestUpsertBegin ==
    /\ pc = "test"
    /\ \E name \in {DNSRuleName, SNIRuleName, "Corporate DNS policy"},
          ids \in {<<FirstFreeId>>, <<FirstFreeId, FirstFreeId + 1>>} :
          up' = [site |-> "test", name |-> name,
                 traffic |-> WirefilterExpr("dns.domains", ids), filters |-> <<"dns">>,
                 blockPageEnabled |-> TRUE, id |-> 0, listing |-> {}]
    /\ pc' = "cou_get"
    /\ attempt' = 1
    /\ UNCHANGED <<remoteVars, inputVars, loopVars, cl, createdListIDs, result,
                   sent, acked, failed, phase, histVars, calls, envVars>>

\* identifiers as the remote assigns them, of one, two and three characters
SampleIds == {FirstFreeId \div 4, FirstFreeId, FirstFreeId * 8}

\* Run, the two expression loops alone (worker.go 80-87, 98-105): the
\* expression of one filter kind over an identifier collection.
RunBuildExpression ==
    /\ pc = "expr"
    /\ \E site \in {"dns", "sni"}, n \in 1..MaxIds :
          \E ids \in [1..n -> SampleIds] :
             /\ createdListIDs' = ids
             /\ up' = UpsertFrame(site, ids)
    /\ pc' = "built"
    /\ UNCHANGED <<remoteVars, inputVars, loopVars, attempt, cl, result,
                   sent, acked, failed, phase, histVars, calls, envVars>>

\* A dry-run worker's createListsInChunks is called alone with a base name,
\* a chunk size and an entry sequence (worker.go 117-124).
CreateListsInChunksBegin ==
    /\ pc = "chunk"
    /\ \E total \in 0..MaxTotal, size \in 1..MaxChunk,
          baseName \in {BlockBaseName, AllowBaseName} :
          /\ cfg' = [cfg EXCEPT !.ListItemSize = size]
          /\ cl' = [baseName |-> baseName, items |-> Domains("d", total), i |-> 0,
                    createdIDs |-> <<>>]
    /\ opts' = [DryRun |-> TRUE]
    /\ planned' = <<>>
    /\ pc' = "dry"
    /\ UNCHANGED <<remoteVars, allow, block, env, dl, conc, loopVars, attempt,
                   createdListIDs, up, result, sent, acked, failed, phase,
                   startRules, startLists, calls, envVars>>

\* createListsInChunks under DryRun: one iteration of the loop (worker.go
\* 125-142), or the return after the last one (worker.go 159).
CreateListsInChunksDryRun ==
    /\ pc = "dry"
    /\ IF cl.i < Chunks(Len(cl.items), cfg.ListItemSize)
       THEN /\ planned' = Append(planned,
                                 DryRunEntry(cl.baseName, cl.items, cfg.ListItemSize, cl.i))
            /\ cl' = [cl EXCEPT !.i = cl.i + 1]
            /\ pc' = pc
       ELSE /\ pc' = "chunked"
            /\ UNCHANGED <<planned, cl>>
    /\ UNCHANGED <<remoteVars, inputVars, loopVars, attempt, createdListIDs, up,
                   result, sent, acked, failed, phase, startRules, startLists,
                   calls, envVars>>

\* ------------------------------------------- doRequestWithRetry in time
\* http.Client{Timeout: 30 * time.Second}
ClientTimeout == 30000

\* time.Duration(secs)*time.Second + 500*time.Millisecond
CooldownExtra == 500

\* variant: the Retry-After value is not waited for
CooldownNone(secs) == 0

Cooldown(secs) == secs * 1000 + CooldownExtra

\* backoff.NewExponentialBackOff(): InitialInterval 500 ms, Multiplier 1.5,
\* RandomizationFactor 0.5, MaxInterval 60 s; eb.MaxElapsedTime = 2 minutes
InitialInterval == 500
MaxInterval == 60000
MaxElapsedTime == 120000

\* the Retry-After values the remote sends: seconds, or something else (a date)
RetryAfters == {"2", "120", "soon"}

\* variant: the cooldown is slept through after every 429
WaitsAlways(ra) == TRUE

\* operation(): ra != "" and strconv.Atoi(ra) returns no error
Waits(ra) == ra # "" /\ Atoi(ra).ok

\* variant: a 4xx status ends the call like a request that could not be built
PermanentOn4xx(resp) == resp \in {"newreq", "404"}

\* operation(): the error is wrapped in backoff.Permanent
Permanent(resp) == resp = "newreq"

\* ExponentialBackOff.NextBackOff: the jittered interval, at the two ends of
\* [interval - interval/2, interval + interval/2]
NextBackOffValues(interval) == {interval \div 2, (3 * interval) \div 2}

\* ExponentialBackOff.incrementCurrentInterval
IncrementCurrentInterval(interval) ==
    IF 3 * interval >= 2 * MaxInterval THEN MaxInterval ELSE (3 * interval) \div 2

\* variant: the elapsed time is never looked at
StopNever(elapsed, next) == FALSE

\* ExponentialBackOff.NextBackOff returns Stop
Stop(elapsed, next) == elapsed + next > MaxElapsedTime

\* how the attempt under way can end: "newreq" the request cannot be built,
\* "neterr" c.http.Do fails, "timeout" it fails on the client timeout, "429ra"
\* a 429 with a Retry-After header, "429" one without, "readerr" a 2xx whose
\* body cannot be read, "200" a 2xx with its body, else the status
Responses(r) ==
    IF r.mock = "badhost" THEN {"newreq"}
    ELSE IF r.mock = "statuses" THEN {"200", "304", "404", "500", "readerr"}
    ELSE IF r.mock = "ratelimit"
    THEN {"200"} \cup (IF r.limited < MaxRateLimited THEN {"429ra"} ELSE {})
    ELSE {"200", "429", "neterr"}
         \cup (IF r.limited < MaxRateLimited THEN {"429ra"} ELSE {})
         \cup (IF r.slowed < MaxSlow THEN {"timeout"} ELSE {})

\* variant: the caller does not wait for the calls it made before (go statement)
CanCallAnyTime(c) == TRUE

\* Run and the typed operations are straight-line code: a logical call is made
\* when every call made before has returned
CanCall(c) == \A d \in 1..(c - 1) : rt[d].status = "ret"

\* the locals of a call that returned are gone when the next call is made
Forget(r) == IF r.status = "ret" THEN [IdleCall EXCEPT !.status = "ret", !.ret = r.ret] ELSE r

runVars == <<rules, lists, nextId, opts, cfg, allow, block, pc, attempt, todo, deleted,
             cl, createdListIDs, up, result, sent, acked, failed, phase, planned,
             startRules, startLists, calls, ctx, net, prev, env, dl, conc>>

\* backoff.Retry after operation() returned an error at r.elapsed: the next
\* interval is drawn; Stop ends the call with the error, else the timer starts
Backoff(c, r) ==
    \E next \in NextBackOffValues(r.interval) :
        rt' = [rt EXCEPT ![c] =
                 [r EXCEPT !.interval = IncrementCurrentInterval(r.interval),
                           !.wake = r.elapsed + next,
                           !.status = IF Stop(r.elapsed, next) THEN "ret" ELSE "wait",
                           !.ret = IF Stop(r.elapsed, next) THEN "err" ELSE "none"]]

\* doRequestWithRetry is called: backoff.Retry resets the clock and runs
\* operation(), which puts the request on the wire (client.go 45-55, 90-95)
DoRequestBegin(c) ==
    /\ pc = "retry"
    /\ rt[c].status = "idle"
    /\ CanCall(c)
    /\ \E mock \in {"flaky", "ratelimit", "badhost", "statuses"} :
          rt' = [d \in 1..MaxCalls |->
                   IF d = c
                   THEN [IdleCall EXCEPT !.status = "flight", !.mock = mock,
                                         !.interval = InitialInterval, !.n = 1]
                   ELSE Forget(rt[d])]
    /\ UNCHANGED runVars

\* operation(): the response of the attempt in flight arrives, or the client
\* timeout fires (client.go 55-88)
DoRequestRespond(c) ==
    /\ pc = "retry"
    /\ rt[c].status = "flight"
    /\ \E resp \in Responses(rt[c]) :
          LET t == rt[c].elapsed + (IF resp = "timeout" THEN ClientTimeout ELSE 0)
              r == [rt[c] EXCEPT !.resp = resp, !.respAt = t, !.elapsed = t, !.ra = 0,
                                 !.header = ""]
          IN  IF resp = "200"
              THEN rt' = [rt EXCEPT ![c] = [r EXCEPT !.status = "ret", !.ret = "ok"]]
              ELSE IF Permanent(resp)
              THEN rt' = [rt EXCEPT ![c] = [r EXCEPT !.status = "ret", !.ret = "err"]]
              ELSE IF resp = "429ra"
              THEN \E ra \in RetryAfters :
                      LET h == [r EXCEPT !.header = ra, !.limited = r.limited + 1]
                      IN  IF Waits(ra)
                          THEN rt' = [rt EXCEPT ![c] =
                                        [h EXCEPT !.status = "cooldown",
                                                  !.ra = Atoi(ra).v,
                                                  !.wake = t + Cooldown(Atoi(ra).v)]]
                          ELSE Backoff(c, h)
              ELSE IF resp = "429" /\ Waits("")
              THEN rt' = [rt EXCEPT ![c] =
                            [r EXCEPT !.status = "cooldown", !.wake = t + Cooldown(0)]]
              ELSE IF resp = "timeout"
              THEN Backoff(c, [r EXCEPT !.slowed = r.slowed + 1])
              ELSE Backoff(c, r)
    /\ UNCHANGED runVars

\* operation(): time.Sleep(wait) is over and the attempt returns "rate
\* limited: 429" (client.go 66-74)
DoRequestCooldownEnd(c) ==
    /\ pc = "retry"
    /\ rt[c].status = "cooldown"
    /\ Backoff(c, [rt[c] EXCEPT !.elapsed = rt[c].wake])
    /\ UNCHANGED runVars

\* backoff.Retry: the timer fires and operation() runs again
DoRequestRetry(c) ==
    /\ pc = "retry"
    /\ rt[c].status = "wait"
    /\ rt[c].wake <= MaxClock
    /\ rt' = [rt EXCEPT ![c] = [rt[c] EXCEPT !.status = "flight",
                                             !.elapsed = rt[c].wake,
                                             !.startAt = rt[c].wake,
                                             !.n = rt[c].n + 1]]
    /\ UNCHANGED runVars

\* the names of the lists the rule expression refers to, in clause order
ChunkOrder ==
    [k \in 1..Len(createdListIDs) |->
        (CHOOSE l \in lists : l.id = createdListIDs[k]).name]

\* The program is started once more with the same sources and configuration
\* after a run that returned nil (the hourly schedule, README.md 91).
RunAgain ==
    /\ pc = "done"
    /\ result = "ok"
    /\ prev.runs = 0
    /\ prev' = [runs |-> 1,
                ruleNames |-> {r.name : r \in rules},
                listNames |-> {l.name : l \in lists},
                chunkOrder |-> ChunkOrder]
    /\ pc' = "rules_get"
    /\ attempt' = 1
    /\ todo' = <<>>
    /\ deleted' = 0
    /\ cl' = NoChunks
    /\ createdListIDs' = <<>>
    /\ up' = NoUpsert
    /\ result' = "none"
    /\ sent' = {}
    /\ acked' = {}
    /\ failed' = {}
    /\ phase' = PhaseNone
    /\ planned' = <<>>
    /\ startRules' = rules
    /\ startLists' = lists
    /\ calls' = <<>>
    /\ UNCHANGED <<remoteVars, inputVars, ctx, net, rt>>

\* ------------------------------------------------------------------- main
\* main: the flag is parsed, LoadFromEnv reads the configuration, the entries
\* come back from DownloadAndProcess, the worker is made with the flag as its
\* DryRun option and Run is entered (MIGRATION.md 192-219, worker.go 26-37).
Main ==
    /\ pc = "main"
    /\ \E e \in Environments, nb \in 0..MaxEntries, na \in 0..MaxEntries :
          /\ env' = e
          /\ cfg' = LoadFromEnv(e)
          /\ opts' = [DryRun |-> e.dryRun]
          /\ block' = Domains("b", nb)
          /\ allow' = Domains("a", na)
    /\ pc' = "rules_get"
    /\ attempt' = 1
    /\ todo' = <<>>
    /\ deleted' = 0
    /\ cl' = NoChunks
    /\ createdListIDs' = <<>>
    /\ up' = NoUpsert
    /\ result' = "none"
    /\ sent' = {}
    /\ acked' = {}
    /\ failed' = {}
    /\ phase' = PhaseNone
    /\ planned' = <<>>
    /\ startRules' = rules
    /\ startLists' = lists
    /\ calls' = <<>>
    /\ UNCHANGED <<remoteVars, envVars, dl, conc>>

\* ---------------------------------------------------- DownloadAndProcess
\* everything DownloadAndProcess leaves alone
downloadFrame == <<remoteVars, opts, cfg, env, conc, loopVars, attempt, cl,
                   createdListIDs, up, result, sent, acked, failed, phase, histVars,
                   calls, envVars>>

\* the two range loops over the sources: the position after the sources that
\* are left to fetch have been counted (downloader.go 45, 55, 62)
Advance(d) ==
    LET b == IF d.pc = "allow" /\ d.i >= Len(d.AllowURLs)
             THEN [d EXCEPT !.pc = "block", !.i = 0] ELSE d
    IN  IF b.pc = "block" /\ b.i >= Len(b.BlockURLs) THEN [b EXCEPT !.pc = "collect"] ELSE b

\* fetchIntoSet(ctx, url, dest) on a source that answers 2xx with this body
FetchIntoSet(d, body) ==
    LET dest == IF d.pc = "allow" THEN d.allowSet ELSE d.blockSet
        r == ReadLines(Split(body, "\n"), dest, 0)
    IN  IF d.pc = "allow"
        THEN [d EXCEPT !.allowSet = r.dest, !.count = r.count, !.i = d.i + 1]
        ELSE [d EXCEPT !.blockSet = r.dest, !.count = r.count, !.i = d.i + 1]

\* main calls DownloadAndProcess with the sources of the configuration
\* (downloader.go 37-45)
DownloadAndProcessBegin ==
    /\ pc = "download"
    /\ dl.pc = "idle"
    /\ \E na \in 0..MaxURLs, nb \in 0..MaxURLs :
          dl' = Advance([NoDownload EXCEPT
                            !.pc = "allow",
                            !.AllowURLs = [k \in 1..na |-> "https://allow" \o ToString(k)],
                            !.BlockURLs = [k \in 1..nb |-> "https://block" \o ToString(k)]])
    /\ UNCHANGED <<pc, allow, block, downloadFrame>>

\* one iteration of a source loop: fetchIntoSet reads the source into the set
\* of its kind (downloader.go 45-60, 79-124)
DownloadAndProcessFetch ==
    /\ pc = "download"
    /\ dl.pc \in {"allow", "block"}
    /\ \E body \in Bodies : dl' = Advance(FetchIntoSet(dl, body))
    /\ UNCHANGED <<pc, allow, block, downloadFrame>>

\* one iteration of a source loop: the transport fails or the status is not
\* 2xx, and DownloadAndProcess returns nil, nil, err (downloader.go 47-49,
\* 57-59, 81-91)
DownloadAndProcessFail ==
    /\ pc = "download"
    /\ dl.pc \in {"allow", "block"}
    /\ dl' = [dl EXCEPT !.pc = "err"]
    /\ pc' = "fatal"
    /\ UNCHANGED <<allow, block, downloadFrame>>

\* the two sets are copied into slices, in the order the map ranges yield
\* (downloader.go 62-69)
DownloadAndProcessReturn ==
    /\ pc = "download"
    /\ dl.pc = "collect"
    /\ allow' \in Orderings(dl.allowSet)
    /\ block' \in Orderings(dl.blockSet)
    /\ dl' = [dl EXCEPT !.pc = "done"]
    /\ pc' = "downloaded"
    /\ UNCHANGED downloadFrame

\* ------------------------------------- one Client, several callers at once
\* everything a call of doRequestWithRetry on the shared Client leaves alone
callerFrame == <<remoteVars, opts, cfg, allow, block, env, dl, loopVars, attempt, cl,
                 createdListIDs, up, result, sent, acked, failed, phase, histVars,
                 calls, envVars>>

\* API hosts of a configuration, with and without trailing slashes
Hosts == {"https://api", "https://api/", "https://api//"}

\* the methods the callers pass; net/http rejects a method that is not a token
Methods == {"GET", "POST", "BAD METHOD"}

ValidMethod(m) == AllIn(m, AsciiUpper)

\* the paths the callers pass
Paths == {"/lists", "/rules"}

\* the body arguments the callers pass: nil, or a value
NilBody == "nil"

BodyArgs == {NilBody, "x"}

\* json.Marshal of a string value
Marshal(v) == "\"" \o v \o "\""

\* the url operation() builds from the Client's fields and the path
RequestURL(c, path) ==
    TrimRight(c.host, "/") \o "/accounts/" \o c.account \o "/gateway" \o path

\* the Authorization header operation() sets from the Client's token
BearerOf(c) == "Bearer " \o c.token

\* The server of this harness answers a request with a body that spells the
\* request out, so that the answers to different requests differ.
Answer(method, url, authorization, bodyBytes) ==
    method \o " " \o url \o " [" \o authorization \o "] " \o bodyBytes

\* what a request in flight can come to: io.ReadAll's bytes after a 2xx
\* ("200"), fmt.Errorf("http %d: %s") after another status ("500"), the 429
\* error, an error of c.http.Do, an error of io.ReadAll
Arrivals == {"200", "500", "429", "neterr", "readerr"}

ErrorOf(o, f) ==
    CASE o = "500" -> "http 500: " \o Answer(f.method, f.url, f.authorization, f.bodyBytes)
      [] o = "429" -> "rate limited: 429"
      [] o = "neterr" -> f.method \o " " \o f.url \o ": connection reset"
      [] o = "readerr" -> "unexpected EOF"

\* The variable out belongs to the call: the closure operation captures the
\* local declared in this call of doRequestWithRetry.
OutSlotShared(c) == 1

OutSlot(c) == c

\* NewClient copies the configuration into a new Client.
NewClient ==
    /\ pc = "shared"
    /\ \E h \in Hosts :
        conc' = [conc EXCEPT !.client = ClientOf(h), !.made = ClientOf(h)]
    /\ pc' = "callers"
    /\ UNCHANGED callerFrame

\* Caller c calls doRequestWithRetry(ctx, method, path, body): the body is
\* marshalled, out is declared, backoff.Retry calls operation.
CallerBegin(c) ==
    /\ pc = "callers"
    /\ conc.frames[c].pc = "idle"
    /\ \E m \in Methods, p \in Paths, b \in BodyArgs :
        conc' = [conc EXCEPT !.frames[c] =
                    [@ EXCEPT !.pc = "op", !.method = m, !.path = p,
                              !.bodyBytes = IF b = NilBody THEN "" ELSE Marshal(b)]]
    /\ UNCHANGED <<pc, callerFrame>>

\* operation() of caller c builds its request from the Client's fields and
\* hands it to c.http.Do; http.NewRequestWithContext refuses a bad method, a
\* permanent error that ends backoff.Retry and the call.
CallerSend(c) ==
    LET f == conc.frames[c]
    IN  /\ pc = "callers"
        /\ f.pc = "op"
        /\ conc' =
             IF ValidMethod(f.method)
             THEN [conc EXCEPT !.frames[c] =
                      [@ EXCEPT !.pc = "flight", !.n = @ + 1,
                                !.url = RequestURL(conc.client, f.path),
                                !.authorization = BearerOf(conc.client)]]
             ELSE [conc EXCEPT !.clock = @ + 1,
                               !.frames[c] =
                      [@ EXCEPT !.pc = "ret", !.n = @ + 1, !.err = "bad method",
                                !.ret = [b |-> "", err |-> "bad method"],
                                !.retAt = conc.clock + 1]]
        /\ UNCHANGED <<pc, callerFrame>>

\* c.http.Do of caller c returns with the response to its request (an
\* http.Client hands each caller the response to the request it sent), and
\* operation() runs to its end: out is assigned after a 2xx whose body was read,
\* an error is returned otherwise.  The waits of operation() and of
\* backoff.Retry take time and change nothing else.
CallerReceive(c) ==
    LET f == conc.frames[c]
    IN  /\ pc = "callers"
        /\ f.pc = "flight"
        /\ \E o \in Arrivals :
            conc' =
              IF o = "200"
              THEN [conc EXCEPT
                      !.clock = @ + 1,
                      !.frames = [[@ EXCEPT ![OutSlot(c)].out =
                                      Answer(f.method, f.url, f.authorization, f.bodyBytes)]
                                  EXCEPT ![c].pc = "stored", ![c].err = "",
                                         ![c].storedAt = conc.clock + 1]]
              ELSE [conc EXCEPT !.frames[c] =
                      [@ EXCEPT !.pc = "failed", !.err = ErrorOf(o, f)]]
        /\ UNCHANGED <<pc, callerFrame>>

\* backoff.Retry of caller c calls operation again after a failed attempt.
CallerRetry(c) ==
    /\ pc = "callers"
    /\ conc.frames[c].pc = "failed"
    /\ conc.frames[c].n < MaxAttempts
    /\ conc' = [conc EXCEPT !.frames[c].pc = "op"]
    /\ UNCHANGED <<pc, callerFrame>>

\* doRequestWithRetry of caller c returns: (out, nil) when backoff.Retry
\* returned nil, (nil, err) when the back-off gave up on the last error.
CallerReturn(c) ==
    LET f == conc.frames[c]
    IN  /\ pc = "callers"
        /\ f.pc \in {"stored", "failed"}
        /\ conc' = [conc EXCEPT
                      !.clock = @ + 1,
                      !.frames[c] =
                        [@ EXCEPT !.pc = "ret", !.retAt = conc.clock + 1,
                                  !.ret = IF f.pc = "stored"
                                          THEN [b |-> conc.frames[OutSlot(c)].out,
                                                err |-> ""]
                                          ELSE [b |-> "", err |-> f.err]]]
        /\ UNCHANGED <<pc, callerFrame>>

\* The caller of Run cancels the context it handed over while Run is running.
Cancel ==
    /\ pc \notin {"start", "done"}
    /\ ctx = "live"
    /\ ctx' = "cancelled"
    /\ UNCHANGED <<remoteVars, inputVars, loopVars, ctlVars, attempt, sent, acked,
                   failed, phase, histVars, calls, net, prev, rt>>

Next ==
    \/ RunBegin
    \/ DeleteAllOldRulesGet
    \/ DeleteAllOldRulesDelete
    \/ DeleteAllOldListsGet
    \/ DeleteAllOldListsDelete
    \/ RunSettle
    \/ CreateListsInChunksCreate
    \/ CreateOrUpdateRuleGet
    \/ CreateOrUpdateRuleUpdate
    \/ CreateOrUpdateRuleCreate

\* The program: one Run against a remote in any small state.
Spec == Init /\ [][Next]_vars

\* DeleteAllOldRules, then DeleteAllOldLists, against a listing of up to
\* MaxListing resources.
InitCleanup == InitWith(MaxListing, "rules_get")

NextCleanup ==
    \/ DeleteAllOldRulesGet
    \/ DeleteAllOldRulesDelete
    \/ DeleteAllOldListsGet
    \/ DeleteAllOldListsDelete

SpecCleanup == InitCleanup /\ [][NextCleanup]_vars

\* CreateOrUpdateRule called twice in succession with one name.
InitUpsert == InitWith(MaxListing, "test")

NextUpsert ==
    \/ TestUpsertBegin
    \/ CreateOrUpdateRuleGet
    \/ CreateOrUpdateRuleUpdate
    \/ CreateOrUpdateRuleCreate

SpecUpsert == InitUpsert /\ [][NextUpsert]_vars

\* One Run whose caller may cancel the context at any moment.
NextCancel ==
    \/ Next
    \/ Cancel

SpecCancel == Init /\ [][NextCancel]_vars

\* Two runs in succession with the same inputs, in which at most MaxFaults
\* attempts fail.
InitTwice == InitFull(MaxInitial, "start", [limited |-> TRUE, left |-> MaxFaults])

NextTwice ==
    \/ Next
    \/ RunAgain

SpecTwice == InitTwice /\ [][NextTwice]_vars

\* MaxCalls logical calls of doRequestWithRetry, each against a remote that is
\* flaky or rate limiting, with the clock of the retry loop.
InitRetry == InitWith(0, "retry")

NextRetry ==
    \/ \E c \in 1..MaxCalls : DoRequestBegin(c)
    \/ \E c \in 1..MaxCalls : DoRequestRespond(c)
    \/ \E c \in 1..MaxCalls : DoRequestCooldownEnd(c)
    \/ \E c \in 1..MaxCalls : DoRequestRetry(c)

SpecRetry == InitRetry /\ [][NextRetry]_vars

\* One Run against the remote an earlier generation left behind.
InitLeft == \E g \in {1, 3} : InitOn({LeftRule(g)}, {InitList(g)}, "start", NoLimit)

SpecLeft == InitLeft /\ [][Next]_vars

\* The program from main on: the configuration comes from the environment
\* and the DryRun option from the flag.
InitMain == InitWith(MaxInitial, "main")

NextMain ==
    \/ Main
    \/ DeleteAllOldRulesGet
    \/ DeleteAllOldRulesDelete
    \/ DeleteAllOldListsGet
    \/ DeleteAllOldListsDelete
    \/ RunSettle
    \/ CreateListsInChunksCreate
    \/ CreateOrUpdateRuleGet
    \/ CreateOrUpdateRuleUpdate
    \/ CreateOrUpdateRuleCreate

SpecMain == InitMain /\ [][NextMain]_vars

\* DownloadAndProcess over up to MaxURLs sources of each kind.
InitDownload == InitWith(0, "download")

NextDownload ==
    \/ DownloadAndProcessBegin
    \/ DownloadAndProcessFetch
    \/ DownloadAndProcessFail
    \/ DownloadAndProcessReturn

SpecDownload == InitDownload /\ [][NextDownload]_vars

\* One logical call of doRequestWithRetry.  A response always arrives or the
\* client timeout fires, time.Sleep returns and timers fire: the call is not
\* left standing.
NextBudget ==
    \/ DoRequestBegin(1)
    \/ DoRequestRespond(1)
    \/ DoRequestCooldownEnd(1)
    \/ DoRequestRetry(1)

SpecBudget == InitRetry /\ [][NextBudget]_vars /\ WF_vars(NextBudget)

\* One Client made by NewClient and used by MaxCallers callers whose calls of
\* doRequestWithRetry interleave in every way.
InitShared == InitWith(0, "shared")

NextShared ==
    \/ NewClient
    \/ \E c \in 1..MaxCallers :
        \/ CallerBegin(c)
        \/ CallerSend(c)
        \/ CallerReceive(c)
        \/ CallerRetry(c)
        \/ CallerReturn(c)

SpecShared == InitShared /\ [][NextShared]_vars

\* The expression builder applied to identifier collections.
InitExpr == InitWith(0, "expr")

NextExpr == RunBuildExpression

SpecExpr == InitExpr /\ [][NextExpr]_vars

\* createListsInChunks of a dry-run worker applied to entry sequences.
InitChunk == InitWith(0, "chunk")

NextChunk ==
    \/ CreateListsInChunksBegin
    \/ CreateListsInChunksDryRun

SpecChunk == InitChunk /\ [][NextChunk]_vars


\* ================================================================== claims
\* The names of InitRuleNames and InitListNames that carry a naming pattern of
\* the tool (rules: a pattern anywhere in the name; lists: "CGPS" anywhere, or
\* a current base name at the start), written out name by name.
MatchingRuleNames ==
    { "CGPS Filter Lists",
      "CGPS Filter Lists - SNI Based Filtering",
      "Go-CFGW Filter Lists",
      "Go-CFGW Filter Lists - SNI Based Filtering",
      "Copy of Go-CFGW Filter Lists" }

MatchingListNames ==
    { "CGPS List - Chunk 1",
      "CGPS Block List - Chunk 1",
      "Go-CFGW Block List - Chunk 1",
      "Go-CFGW Allow List - Chunk 1",
      "My CGPS notes" }

RuleDeletes == {q \in sent : q.method = "DELETE" /\ HasPrefix(q.path, "/rules/")}
ListDeletes == {q \in sent : q.method = "DELETE" /\ HasPrefix(q.path, "/lists/")}
ListCreates == {q \in sent : q.method = "POST" /\ q.path = "/lists"}

DeleteOfRule(r) == Request("DELETE", RulePath(r.id), r.name)
DeleteOfList(l) == Request("DELETE", ListPath(l.id), l.name)

\* DeleteAllOldRules / DeleteAllOldLists returned nil
RulesCleaned ==
    /\ pc \notin {"start", "test", "rules_get", "rules_del"}
    /\ Request("GET", "/rules", "") \notin failed
ListsCleaned ==
    /\ RulesCleaned
    /\ pc \notin {"lists_get", "lists_del"}
    /\ Request("GET", "/lists", "") \notin failed

Returned(r) == pc = "done" /\ result = r

\* C1 (as claimed): under dry-run a run puts no POST, PUT or DELETE on the
\* wire, the cleanup steps included, and still computes the chunk names.
C1_DryRunSendsNothing ==
    opts.DryRun =>
        /\ sent = {}
        /\ Returned("ok") =>
              planned = DryRunLog(BlockBaseName, block, cfg.ListItemSize)
                        \o DryRunLog(AllowBaseName, allow, cfg.ListItemSize)

C3_ListDeletedOnlyByPrefix ==
    \A q \in ListDeletes :
        \/ HasPrefix(q.name, "CGPS List")
        \/ HasPrefix(q.name, "Go-CFGW Block List")
        \/ HasPrefix(q.name, "Go-CFGW Allow List")

\* C4: a CreateOrUpdateRule call that returned nil sent one request: the
\* update of a rule of the fetched listing with exactly that name when there
\* is one, else the create.  Of two successive calls with a name the remote
\* did not hold, the first creates and the second updates a rule that the
\* first created.
C4_UpsertByExactName ==
    /\ \A k \in 1..Len(calls) :
          LET c == calls[k]
              same == {r \in c.listing : r.name = c.name}
          IN  c.ret = "ok" =>
                 IF same = {}
                 THEN c.sent = {Request("POST", "/rules", c.name)}
                 ELSE \E r \in same : c.sent = {Request("PUT", RulePath(r.id), c.name)}
    /\ ( /\ Len(calls) = 2
         /\ calls[1].ret = "ok"
         /\ calls[2].ret = "ok"
         /\ \A r \in startRules : r.name # calls[1].name )
       => /\ calls[1].sent = {Request("POST", "/rules", calls[1].name)}
          /\ \E r \in calls[2].listing :
                /\ r.name = calls[1].name
                /\ r.id >= FirstFreeId
                /\ r \notin calls[1].listing
                /\ calls[2].sent = {Request("PUT", RulePath(r.id), calls[2].name)}

\* C4 witness: two successive calls returned nil, a create then an update,
\* next to a rule whose name only begins with the same text.
C4_Witness ==
    /\ Len(calls) = 2
    /\ calls[1].name = DNSRuleName
    /\ \E r \in startRules : r.name = SNIRuleName
    /\ calls[1].sent = {Request("POST", "/rules", DNSRuleName)}
    /\ calls[1].ret = "ok"
    /\ calls[2].ret = "ok"
    /\ \E q \in calls[2].sent : q.method = "PUT"

\* C5 (as claimed): the remote never holds two rules with one name.
C5_OneRulePerName ==
    \A r1, r2 \in rules : r1.name = r2.name => r1.id = r2.id


RulesNamed(name) == {r \in rules : r.name = name}
HasEntries == Len(block) + Len(allow) > 0

C7_PhaseOrder == [][phase' >= phase]_vars

\* C7 witness: a run went through a cleanup deletion, block and allow list
\* creation and the DNS rule, and is at the SNI rule.
C7_Witness ==
    /\ phase = PhaseSNIRule
    /\ \E q \in acked : q.method = "DELETE"
    /\ \E q \in acked : q = Request("POST", "/lists", ChunkName(BlockBaseName, 1))
    /\ \E q \in acked : q = Request("POST", "/lists", ChunkName(AllowBaseName, 0))
    /\ \E k \in 1..Len(calls) : calls[k].site = "dns" /\ calls[k].ret = "ok"

\* a step whose failure ends the run: an enumeration, a CreateList, a request
\* of CreateOrUpdateRule (a failed deletion is not one)
FatalFailed == \E q \in failed : q.method # "DELETE"

\* C8: when a run-fatal step has failed, Run has returned an error, nothing
\* more is sent and the remote is left as that step left it: what the run
\* deleted stays deleted and the lists it created stay.
C8_FatalAborts ==
    /\ [](FatalFailed =>
            /\ Returned("err")
            /\ \A r \in startRules : DeleteOfRule(r) \in acked => r \notin rules
            /\ \A l \in startLists : DeleteOfList(l) \in acked => l \notin lists
            /\ \A q \in acked \cap ListCreates :
                  \E l \in lists \ startLists : l.name = q.name)
    /\ [][FatalFailed => UNCHANGED <<rules, lists, nextId, sent, phase>>]_vars

\* C8 witness: a run deleted a list, created the first block chunk, failed on
\* the second and returned the error.
C8_Witness ==
    /\ Returned("err")
    /\ \E l \in startLists : DeleteOfList(l) \in acked
    /\ Request("POST", "/lists", ChunkName(BlockBaseName, 0)) \in acked
    /\ Request("POST", "/lists", ChunkName(BlockBaseName, 1)) \in failed

\* C9: a failed deletion does not stop a cleanup: every resource of the
\* listing with a matching name gets its DELETE, the cleanup returns nil, and
\* `deleted` counts the deletions that returned nil; a failed enumeration
\* returns an error before any deletion of that kind is sent.
C9_BatchContinues ==
    /\ RulesCleaned =>
          \A r \in startRules : IsOldRuleName(r.name) => DeleteOfRule(r) \in sent
    /\ ListsCleaned =>
          \A l \in startLists : IsOldListName(l.name) => DeleteOfList(l) \in sent
    /\ pc = "lists_get" => deleted = Cardinality(acked \cap RuleDeletes)
    /\ pc = "settle" => deleted = Cardinality(acked \cap ListDeletes)
    /\ (failed # {} /\ \A q \in failed : q.method = "DELETE") => result # "err"
    /\ Request("GET", "/rules", "") \in failed => Returned("err") /\ sent = {}
    /\ Request("GET", "/lists", "") \in failed => Returned("err") /\ ListDeletes = {}

\* C9 witness: in one list cleanup the first deletion failed, a later one
\* returned nil and was counted, and the cleanup returned nil.
C9_Witness ==
    /\ pc = "settle"
    /\ deleted = 1
    /\ \E a, b \in startLists :
          /\ a.id < b.id
          /\ DeleteOfList(a) \in failed
          /\ DeleteOfList(b) \in acked

\* C10 (as claimed): after a run that returned nil every list on the remote
\* with a name of the tool was created by that run.
C10_NoOrphanLists ==
    Returned("ok") =>
        \A l \in lists : l.name \in MatchingListNames => l \notin startLists

\* the lists the run created that carry the name and the entries of chunk i
\* (0-based) of one input set
NewListsOfChunk(baseName, items, i) ==
    {l \in lists \ startLists :
        /\ l.name = ChunkName(baseName, i)
        /\ l.items = ChunkOf(items, cfg.ListItemSize, i)}

\* C11 (as claimed): in a run that is not a dry run every chunk whose CreateList
\* returned has exactly one new list on the remote, and after a run that
\* returned nil every chunk of both sets has exactly one, failed and retried
\* attempts included.
C11_OneListPerChunk ==
    ~opts.DryRun =>
        /\ \A i \in 0..(Chunks(Len(block), cfg.ListItemSize) - 1) :
              (Request("POST", "/lists", ChunkName(BlockBaseName, i)) \in acked
               \/ Returned("ok"))
              => Cardinality(NewListsOfChunk(BlockBaseName, block, i)) = 1
        /\ \A i \in 0..(Chunks(Len(allow), cfg.ListItemSize) - 1) :
              (Request("POST", "/lists", ChunkName(AllowBaseName, i)) \in acked
               \/ Returned("ok"))
              => Cardinality(NewListsOfChunk(AllowBaseName, allow, i)) = 1

\* one clause of a matching expression, and clauses joined by " or "
ClauseFor(field, id) == "any(" \o field \o "[*] in $" \o ToString(id) \o ")"

RECURSIVE JoinOr(_)
JoinOr(cs) ==
    IF Len(cs) = 1 THEN cs[1] ELSE cs[1] \o " or " \o JoinOr(Tail(cs))

\* the number of places of s where sub occurs
Occurrences(s, sub) ==
    Cardinality({k \in 1..(Len(s) - Len(sub) + 1) : SubSeq(s, k, k + Len(sub) - 1) = sub})

FieldOf(site) == IF site = "dns" THEN "dns.domains" ELSE "net.sni.domains"

\* C15: the expression built over N >= 1 identifiers is the N clauses
\* any(<field>[*] in $<id>) in identifier order, joined by " or ": N
\* clauses, N - 1 separators, none leading and none trailing.
C15_ExpressionShape ==
    pc = "built" =>
        LET ids == createdListIDs
            n == Len(ids)
            e == up.traffic
        IN  /\ e = JoinOr([i \in 1..n |-> ClauseFor(FieldOf(up.site), ids[i])])
            /\ Occurrences(e, "any(") = n
            /\ Occurrences(e, " or ") = n - 1
            /\ ~HasPrefix(e, " or ")
            /\ SubSeq(e, Len(e) - 3, Len(e)) # " or "
            /\ SubSeq(e, Len(e), Len(e)) = ")"

\* C15 witness: an SNI expression over three different identifiers was built.
C15_Witness ==
    /\ pc = "built"
    /\ up.site = "sni"
    /\ Len(createdListIDs) = 3
    /\ Cardinality({createdListIDs[i] : i \in 1..3}) = 3
    /\ Occurrences(up.traffic, "any(net.sni.domains[*] in $") = 3

\* concatenation of the payloads of a sequence of chunks
RECURSIVE Flatten(_)
Flatten(chunks) ==
    IF chunks = <<>> THEN <<>> ELSE Head(chunks).payload \o Flatten(Tail(chunks))

\* ceil(total/size): the least number of groups of size entries that hold total
CeilDiv(total, size) ==
    CHOOSE c \in 0..total : c * size >= total /\ (c = 0 \/ (c - 1) * size < total)

\* C16: createListsInChunks forms ceil(total/size) chunks; their lengths sum
\* to total, every chunk but the last has length size, none is empty, and the
\* chunks in order make up the input sequence.
C16_Chunking ==
    /\ pc \in {"dry", "chunked"} =>
          /\ Len(planned) = cl.i
          /\ \A k \in 1..Len(planned) :
                /\ planned[k].n = Len(planned[k].payload)
                /\ planned[k].n >= 1
                /\ k < CeilDiv(Len(cl.items), cfg.ListItemSize)
                      => planned[k].n = cfg.ListItemSize
                /\ planned[k].n <= cfg.ListItemSize
          /\ Flatten(planned) = SubSeq(cl.items, 1, Len(Flatten(planned)))
    /\ pc = "chunked" =>
          /\ Len(planned) = CeilDiv(Len(cl.items), cfg.ListItemSize)
          /\ Flatten(planned) = cl.items

\* C16 witness: five entries were split by size two into chunks of 2, 2 and 1.
C16_Witness ==
    /\ pc = "chunked"
    /\ Len(cl.items) = 5
    /\ cfg.ListItemSize = 2
    /\ Len(planned) = 3
    /\ planned[3].n = 1

\* Run has passed the creation steps: the cleanup enumerations and every
\* CreateList returned nil, and step 5 has looked at the identifier collection
ReachedRuleStep ==
    /\ phase >= PhaseSettle
    /\ pc \in {"cou_get", "cou_put", "cou_post", "done"}
    /\ \A q \in failed : q \notin ListCreates

RuleRequests == {q \in sent : q.method \in {"POST", "PUT"} /\ HasPrefix(q.path, "/rules")}

CallsOf(site) == {k \in 1..Len(calls) : calls[k].site = site}

\* the expression of a site over the identifier collection, clause by clause
ExprOver(site, ids) == JoinOr([i \in 1..Len(ids) |-> ClauseFor(FieldOf(site), ids[i])])

\* the CreateOrUpdateRule call of a site that is running or has returned
CallOf(site) ==
    IF CallsOf(site) # {} THEN calls[CHOOSE k \in CallsOf(site) : TRUE] ELSE up

\* C18: with an empty identifier collection after the creation steps (no
\* entries, or a dry run) Run looks up, creates and updates no rule and returns
\* nil; with a non-empty one it calls the upsert of "Go-CFGW Filter Lists" with
\* filter kind dns and the configured block-page flag, once.
C18_RuleStepGate ==
    /\ Cardinality(CallsOf("dns")) + (IF pc # "done" /\ up.site = "dns" THEN 1 ELSE 0) <= 1
    /\ ReachedRuleStep =>
          /\ (createdListIDs = <<>>) <=> (opts.DryRun \/ ~HasEntries)
          /\ IF createdListIDs = <<>>
             THEN /\ Returned("ok")
                  /\ calls = <<>>
                  /\ up = NoUpsert
                  /\ RuleRequests = {}
             ELSE /\ CallsOf("dns") # {} \/ (pc # "done" /\ up.site = "dns")
                  /\ CallOf("dns").name = DNSRuleName
                  /\ CallOf("dns").filters = <<"dns">>
                  /\ CallOf("dns").blockPageEnabled = cfg.BlockPageEnabled
                  /\ CallOf("dns").traffic = ExprOver("dns", createdListIDs)

\* C18 witness: a run with two lists upserted the DNS rule with the block page
\* enabled and returned nil.
C18_Witness ==
    /\ Returned("ok")
    /\ ReachedRuleStep
    /\ Len(createdListIDs) = 2
    /\ cfg.BlockPageEnabled
    /\ Cardinality(CallsOf("dns")) = 1
    /\ \E r \in rules : r.name = DNSRuleName /\ r.blockPageEnabled /\ r \notin startRules

\* C19: CreateOrUpdateRule is called for "Go-CFGW Filter Lists - SNI Based
\* Filtering" with filter kind l4 exactly when the SNI option is set, the
\* identifier collection is non-empty and the DNS upsert returned nil; its
\* expression runs over the identifier sequence of the DNS expression, with the
\* SNI field.
C19_SNIRule ==
    LET sniCalled == CallsOf("sni") # {} \/ (pc # "done" /\ up.site = "sni")
        dnsOk == \E k \in CallsOf("dns") : calls[k].ret = "ok"
    IN  /\ sniCalled =>
              /\ cfg.BlockBasedOnSNI
              /\ createdListIDs # <<>>
              /\ dnsOk
              /\ CallOf("sni").name = SNIRuleName
              /\ CallOf("sni").filters = <<"l4">>
              /\ CallOf("sni").traffic = ExprOver("sni", createdListIDs)
              /\ CallOf("dns").traffic = ExprOver("dns", createdListIDs)
        /\ Cardinality(CallsOf("sni")) <= 1
        /\ (cfg.BlockBasedOnSNI /\ dnsOk /\ createdListIDs # <<>>) => sniCalled
        /\ (pc = "done" /\ sniCalled) => CallsOf("sni") = {2}

\* C19 witness: a run with the SNI option and three lists upserted both rules.
C19_Witness ==
    /\ Returned("ok")
    /\ Len(createdListIDs) = 3
    /\ Len(calls) = 2
    /\ calls[1].site = "dns" /\ calls[1].ret = "ok"
    /\ calls[2].site = "sni" /\ calls[2].ret = "ok"

\* C12 (as claimed): once the context is cancelled no request goes out and
\* the remote is not changed any more, and a run in which a remote call
\* returned the cancellation does not return nil.
C12_CancelledRunFails ==
    /\ [][ctx # "live" => UNCHANGED <<rules, lists, nextId, sent>>]_vars
    /\ []((ctx = "observed" /\ pc = "done") => result = "err")

\* C17 (as claimed): after the second of two successive runs with the same
\* inputs and configuration the remote holds the list names and the rule
\* names it held after the first, and the rule expression refers to the same
\* chunks in the same order.
C17_SecondRunSameNames ==
    (prev.runs = 1 /\ Returned("ok")) =>
        /\ {r.name : r \in rules} = prev.ruleNames
        /\ {l.name : l \in lists} = prev.listNames
        /\ ChunkOrder = prev.chunkOrder

CallIds == 1..MaxCalls

C14_BudgetEndsCall ==
    /\ [](\A c \in CallIds :
            /\ rt[c].status = "flight" => rt[c].startAt <= 120000
            /\ (rt[c].status = "ret" /\ rt[c].mock # "" /\ rt[c].resp # "200")
                  => rt[c].ret = "err")
    /\ <>(rt[1].status = "ret")

\* C14 witness: a call returned its error after ten or more failed attempts,
\* the last of them started within the budget.
C14_Witness ==
    \E c \in CallIds :
        /\ rt[c].status = "ret"
        /\ rt[c].ret = "err"
        /\ rt[c].n >= 10
        /\ rt[c].resp \in {"429", "500", "neterr"}
        /\ rt[c].startAt <= 120000
        /\ rt[c].wake > 120000

\* the logical calls that have a request on the wire, or wait to send one
Active == {c \in CallIds : rt[c].status \in {"flight", "cooldown", "wait"}}

\* C20: at most one request is in flight at any moment, and no request is in
\* flight while another logical call waits in a cooldown or for its backoff
\* timer: at most one logical call is under way.
C20_OneCallAtATime ==
    /\ Cardinality({c \in CallIds : rt[c].status = "flight"}) <= 1
    /\ Cardinality(Active) <= 1
    /\ \A c \in CallIds : rt[c].status # "idle" => \A d \in 1..(c - 1) : rt[d].status = "ret"

\* C20 witness: the second call has its second attempt on the wire after the
\* first call returned.
C20_Witness ==
    /\ rt[1].status = "ret"
    /\ rt[2].status = "flight"
    /\ rt[2].n = 2

\* the entries of a sequence, as a set
Entries(q) == {q[k] : k \in 1..Len(q)}

\* C21: the two collections DownloadAndProcess returns are each free of
\* duplicates and no domain is in both of them.
C21_DisjointSets ==
    (pc = "downloaded") =>
        /\ Cardinality(Entries(allow)) = Len(allow)
        /\ Cardinality(Entries(block)) = Len(block)
        /\ Entries(allow) \cap Entries(block) = {}

\* C22: a process started with DRY_RUN=1 and without --dry-run changes nothing
\* on the remote: no request that creates, updates or deletes a list or a rule
\* is sent, and the rules and lists stay what they were.
C22_EnvDryRunChangesNothing ==
    (pc # "main" /\ env.DRY_RUN = "1" /\ ~env.dryRun) =>
        /\ sent = {}
        /\ rules = startRules
        /\ lists = startLists

\* s is the decimal notation of a positive integer that fits an int
IsPositiveInt(s) ==
    LET digits == TrimPrefix(s, "+")
    IN  /\ Len(digits) \in 1..18
        /\ AllIn(digits, AsciiDigits)
        /\ ~AllIn(digits, "0")

\* C28: the chunk size of the configuration Run and createListsInChunks work
\* with is a positive integer, and it is 1000 when the variable that is read
\* for it is missing, not positive or not a number.
C28_ChunkSizePositive ==
    (pc # "main") =>
        /\ cfg.ListItemSize \in Nat \ {0}
        /\ (~IsPositiveInt(env.CLOUDFLARE_LIST_ITEM_SIZE)
              /\ ~IsPositiveInt(env.CLOUDFLARE_LIST_ITEM_LIMIT)) => cfg.ListItemSize = 1000
        /\ (env.CLOUDFLARE_LIST_ITEM_SIZE # "" /\ ~IsPositiveInt(env.CLOUDFLARE_LIST_ITEM_SIZE))
              => cfg.ListItemSize = 1000

\* C28 witness: with CLOUDFLARE_LIST_ITEM_SIZE=-5 a run made one block list
\* with the default size.
C28_Witness ==
    /\ env.CLOUDFLARE_LIST_ITEM_SIZE = "-5"
    /\ cfg.ListItemSize = 1000
    /\ Len(createdListIDs) = 1
    /\ pc = "done"

\* how an attempt can end, by the three outcomes of the claim
SuccessEnds == {"200"}
PermanentEnds == {"newreq"}
RetryableEnds == {"neterr", "timeout", "readerr", "429", "429ra", "304", "404", "500"}

\* the attempt of call c ends in this step
AttemptEnds(c) == rt[c].status = "flight" /\ rt'[c] # rt[c]

\* the call goes on to a further attempt, or the budget ends it with the error
GoesOn(a, b) ==
    \/ b.status \in {"wait", "cooldown"}
    \/ b.status = "ret" /\ b.ret = "err" /\ b.wake > 120000

\* C23: every attempt ends as exactly one of success (2xx with its body: the
\* call returns the body), permanent failure (the request could not be built:
\* the call returns the error at once) and retryable failure (transport
\* error, 429, any other status: 3xx, 4xx and 5xx alike get the same backoff);
\* a call returns a body only when its last attempt had a 2xx status, and a
\* call that returned makes no further attempt.
C23_AttemptOutcomes ==
    [][\A c \in CallIds :
          /\ AttemptEnds(c) =>
                /\ rt'[c].resp \in SuccessEnds \cup PermanentEnds \cup RetryableEnds
                /\ rt'[c].resp \in SuccessEnds =>
                      rt'[c].status = "ret" /\ rt'[c].ret = "ok"
                /\ rt'[c].resp \in PermanentEnds =>
                      /\ rt'[c].status = "ret" /\ rt'[c].ret = "err"
                      /\ rt'[c].n = rt[c].n /\ rt'[c].elapsed = rt[c].elapsed
                /\ rt'[c].resp \in RetryableEnds => GoesOn(rt[c], rt'[c])
                /\ rt'[c].resp \in {"304", "404", "500"} =>
                      /\ rt'[c].status # "cooldown"
                      /\ rt'[c].interval = IncrementCurrentInterval(rt[c].interval)
                      /\ rt'[c].wake - rt'[c].elapsed \in NextBackOffValues(rt[c].interval)
                /\ (rt'[c].status = "ret" /\ rt'[c].ret = "ok") => rt'[c].resp = "200"
          /\ rt[c].status = "ret" => rt'[c].status = "ret"
          /\ (rt[c].status # "ret" /\ rt'[c].status = "ret" /\ rt'[c].ret = "ok")
                => AttemptEnds(c)]_vars

\* C23 witness: a 404 was retried, and the second attempt was answered 404 too.
C23_Witness ==
    /\ rt[1].mock = "statuses"
    /\ rt[1].status = "wait"
    /\ rt[1].resp = "404"
    /\ rt[1].n = 2

\* a Retry-After value that is a number of seconds
IntegerSeconds(h) == h # "" /\ AllIn(h, AsciiDigits)

\* C24: every 429 is a retryable failure; the client sleeps Retry-After + 500
\* ms exactly when the header is there and is an integer, and the backoff
\* follows the sleep; else the next attempt waits for the backoff alone.
C24_RetryAfterOnlyWhenInteger ==
    [][\A c \in CallIds :
          /\ (AttemptEnds(c) /\ rt'[c].resp \in {"429", "429ra"}) =>
                /\ GoesOn(rt[c], rt'[c])
                /\ rt'[c].status = "cooldown" <=> IntegerSeconds(rt'[c].header)
                /\ rt'[c].status = "cooldown" =>
                      /\ ToString(rt'[c].ra) = rt'[c].header
                      /\ rt'[c].wake - rt'[c].respAt = 1000 * rt'[c].ra + 500
                /\ rt'[c].status # "cooldown" =>
                      /\ rt'[c].elapsed = rt[c].elapsed
                      /\ rt'[c].wake - rt'[c].elapsed \in NextBackOffValues(rt[c].interval)
          /\ (rt[c].status = "cooldown" /\ rt'[c] # rt[c]) =>
                /\ rt'[c].elapsed = rt[c].wake
                /\ rt'[c].status \in {"wait", "ret"}
                /\ rt'[c].wake - rt'[c].elapsed \in NextBackOffValues(rt[c].interval)]_vars

\* C24 witness: the first attempt was answered 429 with a Retry-After that is
\* no integer, and the second attempt is due after the first backoff interval.
C24_Witness ==
    /\ rt[1].status = "wait"
    /\ rt[1].resp = "429ra"
    /\ rt[1].header = "soon"
    /\ rt[1].n = 1
    /\ rt[1].wake - rt[1].respAt <= 750

\* the list identifiers the expression of a rule names
ListsNamed(r) ==
    {id \in 1..nextId : Contains(r.traffic, "$" \o ToString(id) \o ")")}

\* C25: when a run has ended, every rule of the remote whose name matches the
\* cleanup patterns names only lists that are on the remote.
C25_NoDanglingRule ==
    (pc = "done") =>
        \A r \in rules :
            IsOldRuleName(r.name) => \A id \in ListsNamed(r) : \E l \in lists : l.id = id

\* the list names of a run in creation order: the block chunks, then the
\* allow chunks, each numbered from 1
ExpectedNames ==
    LET nb == Chunks(Len(block), cfg.ListItemSize)
        na == Chunks(Len(allow), cfg.ListItemSize)
    IN  [k \in 1..(nb + na) |->
            IF k <= nb THEN ChunkName(BlockBaseName, k - 1)
            ELSE ChunkName(AllowBaseName, k - nb - 1)]

\* the name of the list the remote holds under an identifier
NameOf(id) == (CHOOSE l \in lists : l.id = id).name

\* the identifiers collected so far in the run, those of the running
\* createListsInChunks call included
Collected == IF pc = "create" THEN createdListIDs \o cl.createdIDs ELSE createdListIDs

\* C26: in a run that is not a dry run the identifier collection holds the
\* identifiers returned for the block chunks in chunk order, then those
\* returned for the allow chunks in chunk order, in the order the remote made
\* the lists; every rule expression of the run has its clauses in that order.
C26_CreationOrder ==
    (~opts.DryRun /\ pc \notin {"start", "rules_get", "rules_del", "lists_get", "lists_del"}) =>
        /\ Len(Collected) <= Len(ExpectedNames)
        /\ \A k \in 1..Len(Collected) :
              /\ \E l \in lists \ startLists : l.id = Collected[k]
              /\ NameOf(Collected[k]) = ExpectedNames[k]
              /\ \A j \in 1..(k - 1) : Collected[j] < Collected[k]
        /\ ReachedRuleStep => Len(Collected) = Len(ExpectedNames)
        /\ \A k \in 1..Len(calls) :
              calls[k].traffic = ExprOver(calls[k].site, createdListIDs)
        /\ (pc \in {"cou_get", "cou_put", "cou_post"}) =>
              up.traffic = ExprOver(up.site, createdListIDs)

\* C26 witness: a run made two block lists and one allow list and upserted
\* both rules over the three identifiers.
C26_Witness ==
    /\ Returned("ok")
    /\ Len(block) = 2
    /\ Len(allow) = 1
    /\ cfg.ListItemSize = 1
    /\ Len(createdListIDs) = 3
    /\ Len(calls) = 2
    /\ \A k \in 1..2 : calls[k].ret = "ok"

\* the names under which the run has asked the remote to make a list
CreateNames == {q.name : q \in {x \in sent : x.method = "POST" /\ x.path = "/lists"}}

\* the chunks of a run in creation order, as <<set, i>> with i counted from 0
ChunkSeq ==
    LET nb == Chunks(Len(block), cfg.ListItemSize)
        na == Chunks(Len(allow), cfg.ListItemSize)
    IN  [k \in 1..(nb + na) |-> IF k <= nb THEN <<"block", k - 1>> ELSE <<"allow", k - nb - 1>>]

\* the name the claim gives the i-th chunk (0-based) of a set
NameClaimed(c) ==
    (IF c[1] = "block" THEN "Go-CFGW Block List" ELSE "Go-CFGW Allow List")
        \o " - Chunk " \o ToString(c[2] + 1)

\* C27: the i-th chunk of a set is created as "<basename> - Chunk <i+1>"; the
\* names a run has used are those of the first chunks in creation order, so
\* the numbers of a set run from 1 without gap or repeat; two chunks never
\* have one name; every list made holds the entries of the chunk whose name
\* it has, and its name is one the list cleanup matches.
C27_ChunkNames ==
    /\ \E n \in 0..Len(ChunkSeq) : CreateNames = {NameClaimed(ChunkSeq[k]) : k \in 1..n}
    /\ \A j, k \in 1..Len(ChunkSeq) :
          j # k => NameClaimed(ChunkSeq[j]) # NameClaimed(ChunkSeq[k])
    /\ \A l \in lists \ startLists :
          /\ l.name \in CreateNames
          /\ IsOldListName(l.name)
          /\ \E k \in 1..Len(ChunkSeq) :
                /\ l.name = NameClaimed(ChunkSeq[k])
                /\ l.items = ChunkOf(IF ChunkSeq[k][1] = "block" THEN block ELSE allow,
                                     cfg.ListItemSize, ChunkSeq[k][2])

\* C27 witness: a run made the lists Chunk 1 and Chunk 2 of both sets.
C27_Witness ==
    /\ Returned("ok")
    /\ Cardinality(CreateNames) = 4
    /\ "Go-CFGW Allow List - Chunk 2" \in {l.name : l \in lists \ startLists}
    /\ "Go-CFGW Block List - Chunk 2" \in {l.name : l \in lists \ startLists}

\* the lists the run made that are still on the remote
NewLists == lists \ startLists

\* the places of an expression where a list identifier is named
Mentions(e, id) == Occurrences(e, "$" \o ToString(id) \o ")")

\* C29: after a run that is not a dry run and returned nil, the expression of
\* the DNS rule has one clause for each CreateList call that returned, that is
\* ceil(|block|/size) + ceil(|allow|/size) clauses, and names every list the
\* run made exactly once.
C29_EveryListReferenced ==
    (~opts.DryRun /\ Returned("ok") /\ HasEntries) =>
        /\ CallsOf("dns") # {}
        /\ LET e == CallOf("dns").traffic
           IN  /\ Occurrences(e, "any(") = Cardinality({q \in acked : q \in ListCreates})
               /\ Occurrences(e, "any(")
                     = CeilDiv(Len(block), cfg.ListItemSize) + CeilDiv(Len(allow), cfg.ListItemSize)
               /\ \A l \in NewLists : Mentions(e, l.id) = 1

RulePuts == {q \in sent : q.method = "PUT" /\ HasPrefix(q.path, "/rules/")}

\* no deletion of the cleanup of this run has failed
CleanupDeleted == \A q \in failed : q.method # "DELETE"

\* C30: in a run whose cleanup deletions all succeeded every CreateOrUpdateRule
\* call takes the create path; an update (PUT /rules/<id>) is sent only for a
\* rule of the target name that was there before the run and whose deletion
\* failed in this run's cleanup.
C30_CreatePathAfterCleanup ==
    /\ \A q \in RulePuts :
          \E r \in startRules :
              /\ r.name = q.name
              /\ q.path = RulePath(r.id)
              /\ DeleteOfRule(r) \in failed
    /\ CleanupDeleted =>
          /\ RulePuts = {}
          /\ pc # "cou_put"
          /\ \A k \in 1..Len(calls) :
                /\ \A q \in calls[k].sent : q.method = "POST" /\ q.path = "/rules"
                /\ calls[k].ret = "ok" => calls[k].sent # {}

\* C30 witness: the cleanup deleted the rule "Go-CFGW Filter Lists" of an
\* earlier run and the run created the rule anew.
C30_Witness ==
    /\ Returned("ok")
    /\ DeleteOfRule(InitRule(3)) \in acked
    /\ Request("POST", "/rules", DNSRuleName) \in acked
    /\ RulePuts = {}


\* C31: one Client used by two callers whose doRequestWithRetry calls
\* interleave.  Every call that has returned handed back the outcome of its
\* own request: with a nil error the body the server sent in answer to the
\* request built from this call's method, path and body and from the Client
\* as NewClient made it; otherwise no body and the error of one of this call's
\* own attempts.  The Client's token, account and host are as NewClient set
\* them in every state.
OwnAnswer(f) ==
    Answer(f.method, RequestURL(conc.made, f.path), BearerOf(conc.made), f.bodyBytes)

OwnErrors(f) ==
    {"bad method", "rate limited: 429", "unexpected EOF",
     "http 500: " \o OwnAnswer(f),
     f.method \o " " \o RequestURL(conc.made, f.path) \o ": connection reset"}

ReturnedOwn(f) ==
    IF f.ret.err = ""
    THEN f.ret.b = OwnAnswer(f)
    ELSE f.ret.b = "" /\ f.ret.err \in OwnErrors(f)

C31_ConcurrentCallersKeepTheirOwn ==
    /\ conc.client = conc.made
    /\ \A c \in 1..MaxCallers :
        conc.frames[c].pc = "ret" => ReturnedOwn(conc.frames[c])

\* both callers have returned bodies, for different paths, and the second
\* caller's response was stored between the first caller's store and return
C31_Witness ==
    /\ conc.frames[1].pc = "ret"
    /\ conc.frames[2].pc = "ret"
    /\ conc.frames[1].ret.err = ""
    /\ conc.frames[2].ret.err = ""
    /\ conc.frames[1].path # conc.frames[2].path
    /\ conc.frames[1].ret.b # conc.frames[2].ret.b
    /\ conc.frames[1].storedAt < conc.frames[2].storedAt
    /\ conc.frames[2].storedAt < conc.frames[1].retAt
    /\ conc.made.host = "https://api//"

====
